---- MODULE Spec2Model ----
(***************************************************************************)
(* A model of the AHCI driver (kernkonzept/ahci-driver):                   *)
(*   - the Connection tree and the factory (ahci.h, ahci.cc),              *)
(*   - the disk's and the partition view's inout_data (devices.cc/.h),     *)
(*   - the port engine and the virtio request pipeline                     *)
(*     (ahci_port.cc, virtio_block.h, virtio_ahci.h/.cc).                  *)
(* Each part has its own specification over the shared variables; the      *)
(* variables of the other parts stay at their idle values.                 *)
(***************************************************************************)
EXTENDS Integers, Sequences, FiniteSets, TLC

VARIABLES
  \* ---- Connection tree / factory (ahci.h, ahci.cc)
  iface,        \* node -> BOOLEAN: Connection::_interface is non-null
  nsubs,        \* root -> number of partition children (Connection::_subs)
  connpts,      \* Ahci_virtio_driver::_connpts, sequence of published roots
  available,    \* Ahci_virtio_driver::_available_devices
  scanning,     \* roots whose start_disk_scan callback has not yet run
  pending_clients, \* Ahci_virtio_driver::_pending_clients (device ids)
  lastOp,       \* history: the last factory operation, its input and result
  \* ---- One call of inout_data
  ioReq,        \* the arguments of the call
  ioRes,        \* what the call returned and handed to send_command
  \* ---- One port with the virtio interface of its disk
  port,         \* Ahci_port: _state, the slots, the port registers, errands
  vq,           \* Virtio_ahci / Block_dev: the rings, _pending, failed
  hist,         \* history: callbacks fired, admission order, hardware events
  \* ---- One call of Errand::poll
  timer,        \* the Poll_errand, the clock, and the history of the call
  \* ---- One partitioned view with its in-flight cap (ahci_partition.h)
  pview,        \* the view's counters, the parent's slots, the last call
  \* ---- One run of Ahci_port::process_interrupts against PxIS
  isr,          \* PxIS, the handler's position and istate, the last clear
  \* ---- Hba::handle_irq against the HBA's IS register
  hba,          \* HBA IS, the handler's position, is and is_clear, history
  \* ---- The interfaces of one disk and its partitions on one slot pool
  share,        \* the slots' owners, each interface's rings and _pending
  \* ---- The discovery of one device: IDENTIFY and the GPT reads
  disco         \* the pending poll or command, the counters of ahci.cc

connVars == <<iface, nsubs, connpts, available, scanning, pending_clients, lastOp>>
ioVars == <<ioReq, ioRes>>

portVars == <<port, vq, hist>>
timerVars == <<timer>>
viewVars == <<pview>>
isrVars == <<isr>>
hbaVars == <<hba>>
shareVars == <<share>>
discoVars == <<disco>>

vars == <<iface, nsubs, connpts, available, scanning, pending_clients, lastOp,
          ioReq, ioRes, port, vq, hist, timer, pview, isr, hba, share,
          disco>>

\* What the actions of one part leave alone.
notConn == <<ioVars, portVars, timerVars, viewVars, isrVars, hbaVars,
  shareVars, discoVars>>
notIo == <<connVars, portVars, timerVars, viewVars, isrVars, hbaVars,
  shareVars, discoVars>>
notPort == <<connVars, ioVars, timerVars, viewVars, isrVars, hbaVars,
  shareVars, discoVars>>
notTimer == <<connVars, ioVars, portVars, viewVars, isrVars, hbaVars,
  shareVars, discoVars>>
notView == <<connVars, ioVars, portVars, timerVars, isrVars, hbaVars,
  shareVars, discoVars>>
notIsr == <<connVars, ioVars, portVars, timerVars, viewVars, hbaVars,
  shareVars, discoVars>>
notHba == <<connVars, ioVars, portVars, timerVars, viewVars, isrVars,
  shareVars, discoVars>>
notShare == <<connVars, ioVars, portVars, timerVars, viewVars, isrVars, hbaVars,
  discoVars>>
notDisco == <<connVars, ioVars, portVars, timerVars, viewVars, isrVars, hbaVars,
  shareVars>>

(***************************************************************************)
(*                      Connection tree and factory                        *)
(***************************************************************************)

\* Bounds of the connection model.
NumRoots == 1
MaxParts == 2

Roots == 1..NumRoots
\* Node <<r, 0>> is the whole disk r, node <<r, i>> its i-th partition.
Nodes == Roots \X (0..MaxParts)
RootOf(r) == <<r, 0>>

\* Device_info::hid: the disk's serial number or the partition's GUID.  A
\* serial number has at most 20 characters and a GUID is printed with 36, and
\* GUIDs are unique on a disk, so every node has an HID of its own.
Hid(node) == node
NoSuchName == <<0, 0>>
Names == Nodes \cup {NoSuchName}

\* The sub-connections of a node: partitions of a root, none of a partition.
SubCount(node, ns) == IF node[2] = 0 THEN ns[node[1]] ELSE 0

\* Connection::contains_device
contains_device(node, name, ns) ==
  \/ name = Hid(node)
  \/ \E i \in 1..SubCount(node, ns) : name = Hid(<<node[1], i>>)

\* `if (sub._interface) busy = true;` dropped
SubBusy_ignored(ifc, sub) == FALSE

\* `if (sub._interface) busy = true;`
SubBusy(ifc, sub) == ifc[sub]

\* `if (_interface) return contains_device(name) ? -L4_EBUSY : -L4_ENODEV;`
\* dropped: a bound node is treated like an unbound one.
BoundCheck_ignored(ifc, node) == FALSE

\* `if (_interface)` at the head of create_interface_for
BoundCheck(ifc, node) == ifc[node]

RECURSIVE create_interface_for(_, _, _, _)
RECURSIVE sub_loop(_, _, _, _, _, _)

\* The loop over _subs in create_interface_for, from sub number i on.
sub_loop(node, i, busy, name, ifc, ns) ==
  IF i > SubCount(node, ns)
  THEN [ret |-> "ENODEV", ifc |-> ifc, busy |-> busy]
  ELSE LET sub == <<node[1], i>>
           b   == busy \/ SubBusy(ifc, sub)
           res == create_interface_for(sub, name, ifc, ns)
       IN IF res.ret # "ENODEV"
          THEN [ret |-> res.ret, ifc |-> res.ifc, busy |-> b]
          ELSE sub_loop(node, i + 1, b, name, ifc, ns)

\* Connection::create_interface_for: the return code and the new bindings.
create_interface_for(node, name, ifc, ns) ==
  IF BoundCheck(ifc, node)
  THEN [ret |-> IF contains_device(node, name, ns) THEN "EBUSY" ELSE "ENODEV",
        ifc |-> ifc]
  ELSE LET loop == sub_loop(node, 1, FALSE, name, ifc, ns)
       IN IF loop.ret # "ENODEV"
          THEN [ret |-> loop.ret, ifc |-> loop.ifc]
          ELSE IF name = Hid(node)
               THEN IF loop.busy
                    THEN [ret |-> "EBUSY", ifc |-> ifc]
                    ELSE [ret |-> "OK", ifc |-> [ifc EXCEPT ![node] = TRUE]]
               ELSE [ret |-> "ENODEV", ifc |-> ifc]

\* Connection::release_interface, called on root r for the interface of node n.
release_interface(r, n, ifc, ns) ==
  IF n = RootOf(r) /\ ifc[n]
  THEN [ifc EXCEPT ![n] = FALSE]
  ELSE IF n[1] = r /\ n[2] \in 1..ns[r] /\ ifc[n]
       THEN [ifc EXCEPT ![n] = FALSE]
       ELSE ifc

\* `_available_devices >= _connpts.size()` instead of `>`
StillScanning_off_by_one(avail, npub) == avail >= npub

\* `_available_devices > _connpts.size()` (ahci.cc:147)
StillScanning(avail, npub) == avail > npub

RECURSIVE op_create_loop(_, _, _, _, _, _)
\* The loop over _connpts in op_create, from position k on.  capOk tells
\* whether register_obj returns a valid capability.
op_create_loop(k, name, ifc, ns, pts, capOk) ==
  IF k > Len(pts)
  THEN [ret |-> "ENODEV", ifc |-> ifc, node |-> NoSuchName]
  ELSE LET res == create_interface_for(RootOf(pts[k]), name, ifc, ns)
       IN IF res.ret = "OK"
          THEN IF capOk
               THEN [ret |-> "OK", ifc |-> res.ifc, node |-> name]
               ELSE [ret |-> "ENOMEM",
                     ifc |-> release_interface(pts[k], name, res.ifc, ns),
                     node |-> NoSuchName]
          ELSE IF res.ret # "ENODEV"
               THEN [ret |-> res.ret, ifc |-> res.ifc, node |-> NoSuchName]
               ELSE op_create_loop(k + 1, name, ifc, ns, pts, capOk)

\* Ahci_virtio_driver::op_create after its argument checks.
op_create(name, ifc, ns, pts, avail, capOk) ==
  LET res == op_create_loop(1, name, ifc, ns, pts, capOk)
  IN IF res.ret = "ENODEV"
     THEN [ret |-> IF StillScanning(avail, Len(pts)) THEN "EAGAIN" ELSE "ENODEV",
           ifc |-> res.ifc]
     ELSE [ret |-> res.ret, ifc |-> res.ifc]

RECURSIVE connect_static_clients(_, _, _, _, _, _)
\* Ahci_virtio_driver::connect_static_clients for connection r: the loop over
\* _pending_clients from position k on; capOk[k] tells whether the client's
\* gate capability is valid.  Yields the bindings and the clients left.
connect_static_clients(r, k, clients, ifc, ns, capOk) ==
  IF k > Len(clients)
  THEN [ifc |-> ifc, left |-> <<>>]
  ELSE LET res == create_interface_for(RootOf(r), clients[k], ifc, ns)
       IN IF res.ret = "OK"
          THEN IF capOk[k]
               THEN connect_static_clients(r, k + 1, clients, res.ifc, ns, capOk)
               ELSE LET rest == connect_static_clients(
                                  r, k + 1, clients,
                                  release_interface(r, clients[k], res.ifc, ns),
                                  ns, capOk)
                    IN [ifc |-> rest.ifc, left |-> <<clients[k]>> \o rest.left]
          ELSE LET rest == connect_static_clients(r, k + 1, clients, ifc, ns, capOk)
               IN [ifc |-> rest.ifc, left |-> <<clients[k]>> \o rest.left]

NoOp == [op |-> "none", name |-> NoSuchName, ret |-> "OK"]

\* The static clients given on the command line (add_static_client).
StaticClients == {<<>>, <<RootOf(1)>>, <<<<1, 1>>>>, <<<<1, 1>>, RootOf(1)>>}

(***************************************************************************)
(*        inout_data: the ATA disk (devices.cc) and the partition view     *)
(*        (devices.h)                                                      *)
(***************************************************************************)

\* Bound: the longest scatter-gather list of a request.
MaxBlocks == 2

\* enum Ata_commands
Read_dma == 200
Read_dma_ext == 37
Read_sector == 32
Read_sector_ext == 36
Write_dma == 202
Write_dma_ext == 53
Write_sector == 48
Write_sector_ext == 52

\* A 64-bit sector number is kept as <<high, low>> = high * 2^24 + low, with
\* low < 2^24, so that 2^48 can be written.
Half == 2 ^ 24
Lba(hi, lo) == <<hi, lo>>
LbaGt(a, b) == a[1] > b[1] \/ (a[1] = b[1] /\ a[2] > b[2])
LbaGe(a, b) == a = b \/ LbaGt(a, b)
Two28 == Lba(16, 0)
Two32 == Lba(256, 0)
Two48 == Lba(Half, 0)

\* Sector numbers around the limits the code compares with.
Sectors ==
  { Lba(0, 0), Lba(0, 1), Lba(15, Half - 1), Two28, Lba(16, 1),
    Lba(255, Half - 1), Two32, Lba(Half - 1, Half - 1), Two48, Lba(Half, 1) }

\* Sizes of a data block in bytes: half a sector, 1, 256, 257, 65536 and
\* 65537 sectors of 512 bytes.
BlockSizes == {256, 512, 131072, 131584, 33554432, 33554944}
BlockLists == UNION {[1..l -> BlockSizes] : l \in 0..MaxBlocks}

\* What Ahci_port::send_command may return to inout_data: a slot number or
\* an error.
SendResults == {"slot", "EBUSY", "ENODEV"}

NotSent(ret) == [ret |-> ret, sent |-> FALSE, command |-> 0,
                 lba |-> Lba(0, 0), count |-> 0]

RECURSIVE SumTo(_, _)
\* numsec after the first k blocks: `numsec += data[i].size`
SumTo(data, k) == IF k = 0 THEN 0 ELSE SumTo(data, k - 1) + data[k]

\* The checks in the loop over the blocks: some prefix does not end on a
\* sector boundary, or a device without 64-bit addressing on a 64-bit host
\* gets a sector of 2^32 or more.
BlockLoopFails(r) ==
  \E k \in 1..Len(r.data) :
    \/ SumTo(r.data, k) % r.sector_size # 0
    \/ r.host64 /\ ~r.s64a /\ LbaGe(r.sector, Two32)

\* `sector > ((l4_uint64_t)1 << 48)` and `sector > (1 << 28)`
LbaOverLimit(sector, limit) == LbaGt(sector, limit)

\* The selection of task.command in Ata::Device::inout_data
SelectCommand(write, dma, longaddr) ==
  IF write
  THEN IF dma THEN (IF longaddr THEN Write_dma ELSE Write_dma_ext)
              ELSE (IF longaddr THEN Write_sector ELSE Write_sector_ext)
  ELSE IF dma THEN (IF longaddr THEN Read_dma ELSE Read_dma_ext)
              ELSE (IF longaddr THEN Read_sector ELSE Read_sector_ext)

\* Ata::Device::inout_data for the request r; r.send is what send_command
\* returns if it is called.
Ata_inout_data(r) ==
  IF BlockLoopFails(r)
  THEN NotSent("EINVAL")
  ELSE LET numsec == SumTo(r.data, Len(r.data)) \div r.sector_size
           maxsec == IF r.longaddr THEN 65536 ELSE 256
           limit  == IF r.longaddr THEN Two48 ELSE Two28
       IN IF numsec <= 0 \/ numsec > maxsec \/ LbaOverLimit(r.sector, limit)
          THEN NotSent("EINVAL")
          ELSE [ret     |-> IF r.send = "slot" THEN "OK" ELSE r.send,
                sent    |-> TRUE,
                command |-> SelectCommand(r.write, r.dma, r.longaddr),
                lba     |-> r.sector,
                count   |-> IF numsec = maxsec THEN 0 ELSE numsec]

AtaRequests ==
  [dev : {"disk"}, sector : Sectors, data : BlockLists, write : BOOLEAN,
   dma : BOOLEAN, longaddr : BOOLEAN, s64a : BOOLEAN, host64 : BOOLEAN,
   sector_size : {512}, send : SendResults]

\* Bounds of the partition model: the partition's first sector is 1..MaxFirst,
\* it has 1..MaxSize sectors.
MaxFirst == 2
MaxSize == 3

\* The partition adds the start without the offset.
DeliveredSector_no_offset(sector, start) == sector

\* `sector + _start` (devices.h:212)
DeliveredSector(sector, start) == sector + start

\* Partitioned_device::inout_data for the request r on the partition
\* [r.first, r.last]; r.send is what the parent's inout_data returns.
Partitioned_inout_data(r) ==
  LET size  == r.last - r.first + 1
      total == SumTo(r.data, Len(r.data))
  IN IF r.sector >= size
     THEN [ret |-> "EINVAL", sent |-> FALSE, lba |-> 0]
     ELSE IF (total + 511) \div 512 > size - r.sector
          THEN [ret |-> "EINVAL", sent |-> FALSE, lba |-> 0]
          ELSE [ret |-> r.send, sent |-> TRUE,
                lba |-> DeliveredSector(r.sector, r.first)]

PartBlockSizes == {1, 512, 513, 1024}
PartRequests ==
  { r \in [dev : {"partition"}, first : 1..MaxFirst,
           last : 1..(MaxFirst + MaxSize - 1), sector : 0..(MaxSize + 1),
           data : UNION {[1..l -> PartBlockSizes] : l \in 0..MaxBlocks},
           send : {"OK", "EBUSY", "EINVAL"}] :
      r.last >= r.first /\ r.last - r.first + 1 <= MaxSize }

NoReq == [dev |-> "none"]
NoRes == [ret |-> "none"]

IoIdle == ioReq = NoReq /\ ioRes = NoRes

\* A call of Ata::Device::inout_data
AtaInout ==
  /\ ioReq.dev = "disk" /\ ioRes = NoRes
  /\ ioRes' = Ata_inout_data(ioReq)
  /\ UNCHANGED <<ioReq, notIo>>

\* A call of Partitioned_device::inout_data
PartInout ==
  /\ ioReq.dev = "partition" /\ ioRes = NoRes
  /\ ioRes' = Partitioned_inout_data(ioReq)
  /\ UNCHANGED <<ioReq, notIo>>

ConnIdle ==
  /\ iface = [n \in Nodes |-> FALSE]
  /\ nsubs = [r \in Roots |-> 0]
  /\ connpts = <<>>
  /\ available = 0
  /\ scanning = {}
  /\ pending_clients = <<>>
  /\ lastOp = NoOp

ConnInit ==
  /\ iface = [n \in Nodes |-> FALSE]
  /\ nsubs = [r \in Roots |-> 0]
  /\ connpts = <<>>
  /\ available = 0
  /\ scanning = {}
  /\ pending_clients \in StaticClients
  /\ lastOp = NoOp

\* The scan_ports callback of start_device_discovery for a port with an ATA
\* device: the device is counted and its disk scan is started.
DeviceFound(r) ==
  /\ r \notin scanning
  /\ \A k \in 1..Len(connpts) : connpts[k] # r
  /\ available' = available + 1
  /\ scanning' = scanning \cup {r}
  /\ lastOp' = [NoOp EXCEPT !.op = "found"]
  /\ UNCHANGED <<iface, nsubs, connpts, pending_clients>>
  /\ UNCHANGED notConn

\* The callback of Connection::start_disk_scan: add_partitions with the
\* np partitions the reader found, then publish and connect static clients.
ScanDone(r, np, capOk) ==
  /\ r \in scanning
  /\ LET ns  == [nsubs EXCEPT ![r] = np]
         res == connect_static_clients(r, 1, pending_clients, iface, ns, capOk)
     IN /\ nsubs' = ns
        /\ connpts' = Append(connpts, r)
        /\ iface' = res.ifc
        /\ pending_clients' = res.left
  /\ scanning' = scanning \ {r}
  /\ lastOp' = [NoOp EXCEPT !.op = "scan"]
  /\ UNCHANGED available
  /\ UNCHANGED notConn

\* Ahci_virtio_driver::op_create(name)
OpCreate(name, capOk) ==
  /\ LET res == op_create(name, iface, nsubs, connpts, available, capOk)
     IN /\ iface' = res.ifc
        /\ lastOp' = [op |-> "create", name |-> name, ret |-> res.ret]
  /\ UNCHANGED <<nsubs, connpts, available, scanning, pending_clients>>
  /\ UNCHANGED notConn

\* Connection::release_interface(iface) on a published connection.
ReleaseInterface(r, n) ==
  /\ \E k \in 1..Len(connpts) : connpts[k] = r
  /\ iface[n]
  /\ n[1] = r
  /\ iface' = release_interface(r, n, iface, nsubs)
  /\ lastOp' = [NoOp EXCEPT !.op = "release", !.name = n]
  /\ UNCHANGED <<nsubs, connpts, available, scanning, pending_clients>>
  /\ UNCHANGED notConn

ConnNext ==
  \/ \E r \in Roots : DeviceFound(r)
  \/ \E r \in Roots, np \in 0..MaxParts, capOk \in [1..2 -> BOOLEAN] :
       ScanDone(r, np, capOk)
  \/ \E name \in Names, capOk \in BOOLEAN : OpCreate(name, capOk)
  \/ \E r \in Roots, n \in Nodes : ReleaseInterface(r, n)

(***************************************************************************)
(*   One port (ahci_port.cc) with the virtio interface of its disk         *)
(*   (virtio_ahci.h, virtio_ahci.cc, virtio_block.h)                       *)
(***************************************************************************)

\* Bounds: command slots of the port (NCS + 1), chains the client submits.
NumSlots == 1
MaxReqs == 2

\* Bound: the ports of the HBA (_ports.size()).  Port 0 has a device; the
\* other ports are not implemented or have none (Ahcidev_none).
NumPorts == 3
HbaPorts == 0..(NumPorts - 1)

\* The reads the client submits to a device that behaves.
MaxReads == MaxReqs + 1

Slots == 0..(NumSlots - 1)
ReqIds == 1..MaxReads

\* l4virtio_block status values, the L4 error number of -L4_EIO, and the
\* mark of a used-ring entry whose status byte was never written.
L4VIRTIO_BLOCK_S_OK == 0
L4VIRTIO_BLOCK_S_IOERR == 1
L4VIRTIO_BLOCK_S_UNSUPP == 2
L4_EOK == 0
L4_EIO == 5
NoStatus == 0 - 1

\* What a chain of the client looks like: a read, a request that is neither
\* a read nor a write, a chain with a block above _max_block_size, a chain whose
\* only descriptor is shorter than the header.
Kinds == {"IN", "FLUSH", "big", "short"}

\* Bytes the hardware reports in a command header's prdbc on completion.
Xfer == {512}

\* States of a port (Ahci_port::State) the model passes through.
PortStates == {"present", "present_init", "attached", "disabled", "enabling",
               "ready", "disabling", "error", "error_init", "fatal"}

\* The operators below work on one record w that joins the fields of port,
\* vq and hist.

Min(S) == CHOOSE x \in S : \A y \in S : x <= y

\* Conversion of the int `error` to the l4_uint8_t status of finalize_request.
StatusByte(error) == error % 256

UsedLen(sz) == sz

\* Block_dev::finalize_request(req, sz, status): write the status byte,
\* _queue.consumed(req->request, sz), notify the client.
finalize_request(w, r, sz, status) ==
  [w EXCEPT !.used = Append(@, [id |-> r, status |-> status,
                                len |-> UsedLen(sz)])]

\* Ahci_port::device_ready() and is_ready()
device_ready(w) == w.state # "fatal"
is_ready(w) == w.state = "ready"

\* Hardware predicates of the port registers.
is_started(w) == w.st
is_enabled(w) == w.cr
is_command_list_disabled(w) == ~w.cr
is_fis_receive_disabled(w) == ~w.fr
is_port_idle(w) == w.idle
no_command_list_override(w) == ~w.clo
device_present(w) == w.det

\* Command_slot::release()
slot_release(w, s) == [w EXCEPT !.busy[s] = FALSE, !.cb[s] = 0]

\* The slot is handed out although it is reserved.
FreeSlots_all(w) == Slots

\* No slot is ever found free.
FreeSlots_none(w) == {}

FreeSlots(w) == {s \in Slots : ~w.busy[s]}

\* The request of a pipeline chain as Ata::Device::inout_data sees it: one
\* block of one sector at sector 0.
PipeRequest(write) ==
  [dev |-> "disk", sector |-> Lba(0, 0), data |-> <<512>>, write |-> write,
   dma |-> TRUE, longaddr |-> TRUE, s64a |-> TRUE, host64 |-> TRUE,
   sector_size |-> 512, send |-> "slot"]

\* The handlers call each other and the callbacks they were given.  A call
\* is a frame on w.stack, the frame on top is the one that runs (Run below),
\* and w.ret is the value the last callee returned.
Frame(f, a) == [f |-> f, a |-> a]
push(w, frames) == [w EXCEPT !.stack = frames \o @]
return(w, err, slot) == [w EXCEPT !.ret = [err |-> err, slot |-> slot]]

\* Reading through a null pointer ends the program.
crash(w) == [w EXCEPT !.crashed = TRUE, !.stack = <<>>]

\* History kept when the callback of request r fires: how often, from where
\* (and whether the slot's CI bit was set at that time); the slot no longer
\* owes the callback.
NoteCallback(w, r, how, error) ==
  [w EXCEPT !.cbCount[r] = @ + 1, !.cbHow[r] = how, !.cbErr[r] = error,
            !.owed = [s \in Slots |-> IF @[s] = r THEN 0 ELSE @[s]]]

\* Virtio_ahci::task_finished(preq, error, sz), the callback saved in a slot
task_finished(w, r, error, sz) ==
  push(finalize_request(w, r, sz, StatusByte(error)),
       <<Frame("check_pending", <<>>)>>)

\* A reserved slot is released and its callback is called.
slot_done(w, s, how, error, sz) ==
  IF w.cb[s] = 0 THEN slot_release(w, s)
  ELSE push(NoteCallback(slot_release(w, s), w.cb[s], how, error),
            <<Frame("task_finished", <<w.cb[s], error, sz>>)>>)

\* Command_slot::abort(): the callback of a reserved slot is told -L4_EIO
slot_abort(w, s) ==
  IF ~w.busy[s] THEN w
  ELSE slot_done(w, s, IF s \in w.ci THEN "abort_set" ELSE "abort_clear",
                 0 - L4_EIO, 0)

\* The slot pool, the saved callbacks and PxCI of w.
SlotView(w) == [busy |-> w.busy, cb |-> w.cb, ci |-> w.ci]

\* No send_command was called.
NoSend == [ret |-> "none"]

\* History of the last send_command: the slots as it found them (w0) and as
\* it left them when it had reserved and issued (w1), and what it returns.
NoteSend(w0, w1, err, slot) ==
  return([w1 EXCEPT !.lastSend = [pre |-> SlotView(w0), post |-> SlotView(w1),
                                  ready |-> is_ready(w0),
                                  ret |-> err, slot |-> slot]],
         err, slot)

\* History of the last send_command that found the port not Ready, taken
\* when it returns: the request, the value returned, whether the slot is
\* free, how often and with what the callback was called, and PxCI before
\* and after.
NoUnreadySend == [req |-> 0]

send_command_ret(w, r, s, ci0) ==
  return([w EXCEPT !.unreadySend =
            [req |-> r, slot |-> s, free |-> ~w.busy[s],
             calls |-> w.cbCount[r], error |-> w.cbErr[r],
             ci0 |-> ci0, ci |-> w.ci]],
         "OK", s)

\* The slot stays reserved on a port that is not Ready.
send_command_keeps_slot(w, r) ==
  IF ~device_ready(w) THEN NoteSend(w, w, "ENODEV", 0)
  ELSE IF FreeSlots(w) = {} THEN NoteSend(w, w, "EBUSY", 0)
  ELSE LET s  == Min(FreeSlots(w))
           w1 == [w EXCEPT
                    !.busy[s] = TRUE, !.cb[s] = r,
                    !.admitted = Append(@, r),
                    !.owed[s] = r,
                    !.reuse = @ \/ w.owed[s] # 0]
       IN IF is_ready(w1)
          THEN NoteSend(w, [w1 EXCEPT !.ci = @ \cup {s}], "OK", s)
          ELSE push([NoteSend(w, w1, "OK", s) EXCEPT !.ret = w.ret],
                    <<Frame("send_command_ret", <<r, s, w.ci>>)>>)

\* Ahci_port::send_command(task, cb): r is the request whose task_finished
\* is bound into cb
send_command(w, r) ==
  IF ~device_ready(w) THEN NoteSend(w, w, "ENODEV", 0)
  ELSE IF FreeSlots(w) = {} THEN NoteSend(w, w, "EBUSY", 0)
  ELSE LET s  == Min(FreeSlots(w))
           w1 == [w EXCEPT
                    !.busy[s] = TRUE, !.cb[s] = r,
                    !.admitted = Append(@, r),
                    !.owed[s] = r,
                    !.reuse = @ \/ w.owed[s] # 0]
       IN IF is_ready(w1)
          THEN NoteSend(w, [w1 EXCEPT !.ci = @ \cup {s}], "OK", s)
          ELSE push([NoteSend(w, w1, "OK", s) EXCEPT !.ret = w.ret],
                    <<Frame("slot_abort", <<s>>),
                      Frame("send_command_ret", <<r, s, w.ci>>)>>)

\* Virtio_ahci::inout_request: Ata::Device::inout_data checks the request
\* and calls send_command
inout_request(w, r) ==
  LET chk == Ata_inout_data(PipeRequest(w.kinds[r] = "OUT"))
  IN IF ~chk.sent THEN return(w, chk.ret, 0) ELSE send_command(w, r)

\* Virtio_ahci::process_request up to the return of inout_request, and
\* from there on; kick's loop goes on when it returns true
\* Every request goes to the device, whatever its type.
process_request_all_inout(w, r) ==
  push(w, <<Frame("inout_request", <<r>>),
            Frame("process_request_ret", <<r>>)>>)

process_request(w, r) ==
  IF w.kinds[r] \in {"IN", "OUT"}
  THEN push(w, <<Frame("inout_request", <<r>>),
                 Frame("process_request_ret", <<r>>)>>)
  ELSE push(finalize_request(w, r, 0, L4VIRTIO_BLOCK_S_UNSUPP),
            <<Frame("kick_loop", <<>>)>>)

\* A request that finds every slot taken fails like on any other error.
process_request_ret_no_queue(w, r) ==
  push(IF w.ret.err # "OK"
       THEN finalize_request(w, r, 0, L4VIRTIO_BLOCK_S_IOERR) ELSE w,
       <<Frame("kick_loop", <<>>)>>)

process_request_ret(w, r) ==
  IF w.ret.err = "EBUSY"
  THEN [w EXCEPT !.pending = Append(@, r), !.parked = @ \cup {r}]
  ELSE push(IF w.ret.err # "OK"
            THEN finalize_request(w, r, 0, L4VIRTIO_BLOCK_S_IOERR) ELSE w,
            <<Frame("kick_loop", <<>>)>>)

\* The chain is consumed and the device config is left as it is.
catch_Bad_descriptor_consumed_only(w, r) ==
  [w EXCEPT !.used = Append(@, [id |-> r, status |-> NoStatus, len |-> 0])]

\* kick's handler of Bad_descriptor: _dev_config.set_failed(),
\* _queue.consumed(r)
catch_Bad_descriptor(w, r) ==
  [w EXCEPT !.failed = TRUE,
            !.used = Append(@, [id |-> r, status |-> NoStatus, len |-> 0])]

\* One round of the loop of Block_dev::kick over the available ring
kick_loop(w) ==
  IF w.failed \/ w.avail = <<>> THEN w
  ELSE LET r  == Head(w.avail)
           w1 == [w EXCEPT !.avail = Tail(@)]
       IN CASE w.kinds[r] = "short" ->
                 push(catch_Bad_descriptor(w1, r), <<Frame("kick_loop", <<>>)>>)
            [] w.kinds[r] = "big" ->
                 push(finalize_request(w1, r, 0, L4VIRTIO_BLOCK_S_UNSUPP),
                      <<Frame("kick_loop", <<>>)>>)
            [] OTHER -> process_request(w1, r)

\* kick goes on although requests wait in the pending queue.
kick_queue_never_stopped(w) == kick_loop(w)

\* Block_dev::kick
kick(w) == IF w.pending # <<>> THEN w ELSE kick_loop(w)

\* One round of the while loop of Virtio_ahci::check_pending, and the kick
\* after the loop.  The head's request pointer is null when the request was
\* finalized before (moved into finalize_request).
check_pending_loop(w) ==
  IF w.pending = <<>> THEN kick(w)
  ELSE LET r == Head(w.pending)
       IN IF \E k \in 1..Len(w.used) : w.used[k].id = r THEN crash(w)
          ELSE push(w, <<Frame("inout_request", <<r>>),
                         Frame("check_pending_ret", <<r>>)>>)

check_pending_ret(w, r) ==
  IF w.ret.err = "EBUSY" THEN w
  ELSE push([(IF w.ret.err # "OK"
              THEN finalize_request(w, r, 0, L4VIRTIO_BLOCK_S_IOERR) ELSE w)
             EXCEPT !.pending = Tail(@)],
            <<Frame("check_pending_loop", <<>>)>>)

\* Virtio_ahci::check_pending
check_pending(w) == IF w.pending = <<>> THEN w ELSE check_pending_loop(w)

\* Writes of the driver to PxCMD.  The hardware clears PxCI when ST goes
\* from 1 to 0.
write_st(w, v) ==
  [w EXCEPT !.st = v,
            !.ci = IF w.st /\ ~v THEN {} ELSE @,
            !.cr = IF w.fast THEN v ELSE @]
write_fre(w, v) == [w EXCEPT !.fre = v, !.fr = IF w.fast THEN v ELSE @]
write_clo(w) == [w EXCEPT !.clo = ~w.fast]

\* `_state = st`; the history notes that the port has been Fatal, and the
\* states the port takes from handle_error on until it is Ready again.
set_state(w, st) ==
  [w EXCEPT !.state = st, !.everFatal = @ \/ st = "fatal",
            !.trail = IF w.trailOn /\ st # w.state THEN Append(@, st) ELSE @,
            !.trailOn = @ /\ st # "ready"]

\* The callbacks that the port operations are given: the name of the
\* lambda, the CI mask it captured, and the name of the callback it calls.
Callback(n, mask, then) == [n |-> n, mask |-> mask, then |-> then]
NoCallback == Callback("none", {}, "none")
call(w, k) == push(w, <<Frame("call", <<k>>)>>)

\* The predicate a poll errand evaluates; a scheduled errand has none.
PollPred(kind, w) ==
  CASE kind = "enable_clo"    -> no_command_list_override(w)
    [] kind = "dma_enable"    -> is_enabled(w)
    [] kind = "disable"       -> is_command_list_disabled(w)
    [] kind = "init_cl"       -> is_command_list_disabled(w)
    [] kind = "init_fis"      -> is_fis_receive_disabled(w)
    [] kind = "reset_present" -> device_present(w)
    [] kind = "wait_tfd"      -> is_port_idle(w)
    [] OTHER                  -> TRUE

\* Errand::poll(10, 50000, pred, cb): pred is evaluated at once; when it
\* does not hold the poll errand is scheduled.
poll(w, kind, k) ==
  IF PollPred(kind, w)
  THEN push(w, <<Frame("poll_done", <<kind, TRUE, k, w.state>>)>>)
  ELSE [w EXCEPT !.errands = Append(@, [kind |-> kind, k |-> k,
                                        from |-> w.state])]

\* `for (auto &s : _slots) s.abort();` from slot s on
abort_from(w, s) ==
  IF s = NumSlots THEN w
  ELSE push(w, <<Frame("slot_abort", <<s>>), Frame("abort_from", <<s + 1>>)>>)

\* Ahci_port::initialize_memory(maxslots) as scan_ports calls it
initialize_memory(w) ==
  set_state([write_fre([w EXCEPT !.ie = FALSE], TRUE) EXCEPT
               !.busy = [s \in Slots |-> s \in w.ci],
               !.cb = [s \in Slots |-> 0]],
            "disabled")

\* Ahci_port::disable_fis_receive
disable_fis_receive(w, k) ==
  IF is_fis_receive_disabled(w)
  THEN call(set_state(w, IF w.state = "present_init"
                         THEN "attached" ELSE "disabled"), k)
  ELSE poll(write_fre(w, FALSE), "init_fis", k)

\* Ahci_port::initialize
initialize(w, k) ==
  IF w.state \notin {"present", "error"}
  THEN set_state(w, "fatal")
  ELSE LET w1 == set_state(w, IF w.state = "present"
                              THEN "present_init" ELSE "error_init")
       IN IF is_command_list_disabled(w1) THEN disable_fis_receive(w1, k)
          ELSE poll(write_st(w1, FALSE), "init_cl", k)

\* Ahci_port::dma_enable
dma_enable(w, k) == poll(write_st(w, TRUE), "dma_enable", k)

\* Ahci_port::enable
enable(w, k) ==
  IF w.state # "disabled" THEN call(w, k)
  ELSE LET w1 == set_state(w, "enabling")
       IN IF ~is_port_idle(w1) THEN poll(write_clo(w1), "enable_clo", k)
          ELSE dma_enable(w1, k)

\* Ahci_port::disable
disable(w, k) ==
  LET w1 == IF w.state \in {"disabled", "error"}
            THEN set_state(w, "fatal") ELSE w
  IN IF is_command_list_disabled(w1)
     THEN call(set_state(w1, "disabled"), k)
     ELSE LET w2 == write_st([w1 EXCEPT !.ie = FALSE], FALSE)
          IN IF is_command_list_disabled(w2)
             THEN call(set_state(w2, "disabled"), k)
             ELSE poll(set_state(w2, "disabling"), "disable", k)

\* The port is disabled and the slots are left as they are.
abort_disable_only(w, then) == disable(w, Callback(then, {}, "none"))

\* Ahci_port::abort
abort(w, then) == disable(w, Callback("abort_slots", {}, then))

\* History of a status-change interrupt: the slots reserved and the requests
\* whose callbacks they held when process_interrupts read PxIS, and, once
\* SCTL = 1 was written, whether by then each of these requests had been
\* called back once with -L4_EIO and each of these slots was free.
NoStatusChange == [seen |-> FALSE, slots |-> {}, reqs |-> {}, sctl |-> FALSE,
                   settled |-> FALSE]

NoteStatusChange(w) ==
  [w EXCEPT !.statusChange =
     [NoStatusChange EXCEPT
        !.seen = TRUE,
        !.slots = {s \in Slots : w.busy[s]},
        !.reqs = {w.cb[s] : s \in {t \in Slots : w.busy[t] /\ w.cb[t] # 0}}]]

NoteSctl(w) ==
  IF ~w.statusChange.seen \/ w.statusChange.sctl THEN w
  ELSE [w EXCEPT !.statusChange =
          [@ EXCEPT
             !.sctl = TRUE,
             !.settled =
               /\ \A r \in w.statusChange.reqs :
                    /\ w.cbCount[r] = 1 /\ w.cbErr[r] = 0 - L4_EIO
                    /\ \A s \in Slots : w.cb[s] # r
               /\ \A s \in w.statusChange.slots : ~w.busy[s]]]

\* Ahci_port::reset: SCTL = 1 and an errand 5 ms later
reset(w0, k) ==
  LET w == NoteSctl(w0) IN
  [w EXCEPT !.sctl = TRUE,
            !.sctlBusy = @ \cup {s \in Slots : w.busy[s]},
            !.errands = Append(@, [kind |-> "reset_delay", k |-> k,
                                   from |-> w.state])]

\* Ahci_port::wait_tfd
wait_tfd(w, k) == poll(w, "wait_tfd", k)

\* History of the last poll completion that found the port in another
\* state than the one its operation had set: the state found, the state
\* when it called the caller's callback, and how often it called it.
NoStale == [kind |-> "none", from |-> "none", before |-> "none",
            atCall |-> "none", calls |-> 0, open |-> FALSE]

\* The polls of initialize, enable and disable.
TransitionPolls == {"enable_clo", "dma_enable", "disable", "init_cl", "init_fis"}

NoteStale(w, kind, from) ==
  IF kind \in TransitionPolls /\ w.state # from
  THEN [w EXCEPT !.stale = [kind |-> kind, from |-> from, before |-> w.state,
                            atCall |-> "none", calls |-> 0, open |-> TRUE]]
  ELSE [w EXCEPT !.stale.open = FALSE]

\* The completion lambda calls the caller's callback.
done_call(w, k) ==
  call(IF w.stale.open
       THEN [w EXCEPT !.stale.calls = @ + 1, !.stale.atCall = w.state]
       ELSE w, k)

\* The state is not looked at.
still_enabling_unchecked(w) == TRUE

\* The port is still in the state enable set.
still_enabling(w) == w.state = "enabling"
\* The port is still in the state disable set.
still_disabling(w) == w.state = "disabling"
\* The port is still in a state initialize set.
still_initializing(w) == w.state \in {"present_init", "error_init"}

\* The completion lambda of each poll, called with the poll's result; from
\* is the state of the port when the poll was started.
poll_done(w0, kind, ret, k, from) ==
  LET w == NoteStale(w0, kind, from)
  IN CASE kind = "enable_clo" ->
         IF ~still_enabling(w) THEN done_call(w, k)
         ELSE IF ret THEN dma_enable(w, k)
         ELSE done_call(set_state(w, "fatal"), k)
    [] kind = "dma_enable" ->
         IF ~still_enabling(w) THEN done_call(w, k)
         ELSE IF ret
         THEN done_call(set_state([w EXCEPT !.ie = TRUE], "ready"), k)
         ELSE disable(set_state(w, "error"), k)
    [] kind = "disable" ->
         done_call(set_state(w, IF ~still_disabling(w) THEN w.state
                                ELSE IF ret THEN "disabled" ELSE "fatal"),
                   k)
    [] kind = "init_cl" ->
         IF ~still_initializing(w) THEN done_call(w, k)
         ELSE IF ret THEN disable_fis_receive(w, k)
         ELSE done_call(set_state(w, "fatal"), k)
    [] kind = "init_fis" ->
         done_call(set_state(w,
                 IF ~still_initializing(w) THEN w.state
                 ELSE IF ~ret THEN "fatal"
                 ELSE IF w.state = "present_init" THEN "attached"
                 ELSE "disabled"),
              k)
    [] kind = "reset_delay" ->
         poll([w EXCEPT !.sctl = FALSE], "reset_present", k)
    [] kind = "reset_present" ->
         IF ret THEN wait_tfd(w, k) ELSE call(w, k)
    [] kind = "wait_tfd" ->
         call(IF ret THEN [w EXCEPT !.is = {}, !.resetDone = TRUE] ELSE w, k)

\* The callback that scan_ports was given is called for port p; port is
\* "port" for the Ahci_port and "null" for nullptr.
scan_callback(w, p, arg) ==
  [w EXCEPT !.scanCb[p] = Append(@, arg),
            !.scanned = IF p = 0 THEN arg ELSE @,
            !.scanState = IF p = 0 THEN w.state ELSE @]

\* The callback is called with null for every port, and the port with a
\* device is initialized as well.
scan_ports_null_for_all(w, p) ==
  IF p = NumPorts THEN w
  ELSE push(scan_callback(w, p, "null"),
            IF p = 0
            THEN <<Frame("initialize", <<Callback("scan_init", {}, "none")>>),
                   Frame("scan_ports", <<p + 1>>)>>
            ELSE <<Frame("scan_ports", <<p + 1>>)>>)

\* Hba::scan_ports from port p on
scan_ports(w, p) ==
  IF p = NumPorts THEN w
  ELSE IF p = 0
  THEN push(w, <<Frame("initialize", <<Callback("scan_init", {}, "none")>>),
                 Frame("scan_ports", <<p + 1>>)>>)
  ELSE push(scan_callback(w, p, "null"), <<Frame("scan_ports", <<p + 1>>)>>)

\* The body of the callback k.
run_callback(w, k) ==
  CASE k.n = "none" -> w
    [] k.n = "op_done" ->
         \* the callback given to the operation called by PortOp
         [w EXCEPT !.opDone = @ + 1]
    [] k.n = "scan_init" ->
         \* Hba::scan_ports: initialize_memory(ncs), which throws unless the
         \* port is attached, then enable
         IF w.state = "attached"
         THEN enable(initialize_memory(w), Callback("scan_enable", {}, "none"))
         ELSE scan_callback(w, 0, "null")
    [] k.n = "scan_enable" ->
         scan_callback(w, 0, IF is_ready(w) THEN "port" ELSE "null")
    [] k.n = "abort_slots" ->
         \* Ahci_port::abort: abort every slot, then the caller's callback
         push(w, <<Frame("abort_from", <<0>>),
                   Frame("call", <<Callback(k.then, {}, "none")>>)>>)
    [] k.n = "reset" ->
         \* process_interrupts: `[=]{ reset([]{}); }`
         reset(w, NoCallback)
    [] k.n = "he_init" ->
         \* handle_error: SERR and the error interrupts are cleared, enable
         enable([w EXCEPT !.is = @ \ {"err"}],
                Callback("he_enable", k.mask, "none"))
    [] k.n = "he_enable" ->
         LET w1 == [w EXCEPT !.recovering = @ - 1]
         IN  IF k.mask = {} THEN w1
             ELSE IF is_ready(w1)
             THEN [w1 EXCEPT !.ci = @ \cup k.mask,
                             !.recovery = [@ EXCEPT
                                !.written = TRUE, !.mask = k.mask,
                                !.busy = {s \in Slots : w.busy[s]},
                                !.ci = w.ci \cup k.mask]]
             ELSE abort_from(w1, 0)

\* Ahci_port::check_pending_commands from slot s on: a reserved slot whose
\* bit is clear in the CI value read at the start is released and its
\* callback is called with L4_EOK and the slot's prdbc.
finish_from(w, s, ci0) ==
  IF s = NumSlots THEN w
  ELSE LET w1 == push(w, <<Frame("finish_from", <<s + 1, ci0>>)>>)
       IN IF w.busy[s] /\ s \notin ci0
          THEN slot_done(w1, s, "finish", L4_EOK, w.prdbc[s]) ELSE w1

check_pending_commands(w) == finish_from(w, 0, w.ci)

\* History of an error recovery: the slots handle_error aborted, and at the
\* time of `_regs[Regs::Port::Ci] = slotstate` the mask written, the slots
\* reserved, and PxCI after the write.
NoRecovery == [aborted |-> {}, written |-> FALSE, mask |-> {}, busy |-> {},
               ci |-> {}, req |-> 0]

\* Ahci_port::handle_error up to `_state = S_error`, and from there on
handle_error(w) ==
  IF is_started(w)
  THEN push([w EXCEPT !.recovery = [NoRecovery EXCEPT
                                      !.aborted = {w.ccs},
                                      !.req = IF w.busy[w.ccs]
                                              THEN w.cb[w.ccs] ELSE 0]],
            <<Frame("slot_abort", <<w.ccs>>),
                 Frame("check_pending_commands", <<>>),
                 Frame("handle_error_init", <<w.ci>>)>>)
  ELSE push([w EXCEPT !.recovery = [NoRecovery EXCEPT !.aborted = Slots]],
            <<Frame("abort_from", <<0>>),
              Frame("handle_error_init", <<{}>>)>>)

\* The port is left in Error and no recovery is started.
handle_error_init_no_recovery(w, slotstate) ==
  set_state([w EXCEPT !.trailOn = is_ready(w) /\ is_started(w)], "error")

\* History: one more sequence started by handle_error is in progress.
NoteRecovery(w) == [w EXCEPT !.recovering = @ + 1]

\* History: the state of the port when process_interrupts ran abort or
\* handle_error while a sequence started by handle_error was in progress
NoteOverlap(w) ==
  [w EXCEPT !.overlap = IF w.recovering > 0 THEN w.state ELSE @]

handle_error_init(w, slotstate) ==
  initialize(set_state([NoteRecovery(w) EXCEPT
                          !.trailOn = is_ready(w) /\ is_started(w)],
                       "error"),
             Callback("he_init", slotstate, "none"))

\* Ahci_port::process_interrupts; the last frame clears PxIS
process_interrupts(w) ==
  IF "pcs" \in w.is
  THEN abort(push(NoteOverlap(NoteStatusChange(w)),
                  <<Frame("clear_is", <<w.is>>)>>),
             "reset")
  ELSE IF "err" \in w.is
  THEN handle_error(push(NoteOverlap(w), <<Frame("clear_is", <<{"data"}>>)>>))
  ELSE check_pending_commands(push(w, <<Frame("clear_is", <<{"data"}>>)>>))

\* One of the port's operations is called with a callback.
port_op(w, op) ==
  CASE op = "initialize" -> initialize(w, Callback("op_done", {}, "none"))
    [] op = "enable" -> enable(w, Callback("op_done", {}, "none"))
    [] op = "disable" -> disable(w, Callback("op_done", {}, "none"))
    [] op = "abort" -> abort(w, "op_done")

\* The frame on top of the stack runs.
Step(w) ==
  LET fr == Head(w.stack)
      a  == fr.a
      w0 == [w EXCEPT !.stack = Tail(@)]
  IN CASE fr.f = "task_finished" -> task_finished(w0, a[1], a[2], a[3])
       [] fr.f = "slot_abort" -> slot_abort(w0, a[1])
       [] fr.f = "return" -> return(w0, a[1], a[2])
       [] fr.f = "send_command_ret" -> send_command_ret(w0, a[1], a[2], a[3])
       [] fr.f = "inout_request" -> inout_request(w0, a[1])
       [] fr.f = "process_request_ret" -> process_request_ret(w0, a[1])
       [] fr.f = "kick_loop" -> kick_loop(w0)
       [] fr.f = "kick" -> kick(w0)
       [] fr.f = "check_pending" -> check_pending(w0)
       [] fr.f = "check_pending_loop" -> check_pending_loop(w0)
       [] fr.f = "check_pending_ret" -> check_pending_ret(w0, a[1])
       [] fr.f = "call" -> run_callback(w0, a[1])
       [] fr.f = "poll_done" -> poll_done(w0, a[1], a[2], a[3], a[4])
       [] fr.f = "abort_from" -> abort_from(w0, a[1])
       [] fr.f = "finish_from" -> finish_from(w0, a[1], a[2])
       [] fr.f = "check_pending_commands" -> check_pending_commands(w0)
       [] fr.f = "handle_error_init" -> handle_error_init(w0, a[1])
       [] fr.f = "clear_is" -> [w0 EXCEPT !.is = @ \ a[1]]
       [] fr.f = "initialize" -> initialize(w0, a[1])
       [] fr.f = "scan_ports" -> scan_ports(w0, a[1])
       [] fr.f = "process_interrupts" -> process_interrupts(w0)
       [] fr.f = "reset_device" -> reset(w0, NoCallback)
       [] fr.f = "port_op" -> port_op(w0, a[1])

RECURSIVE Run(_)
\* A handler runs to its end: until no call is left on the stack.
Run(w) ==
  CHOOSE r \in {IF v.stack = <<>> THEN v ELSE Run(Step(v)) : v \in {w}} : TRUE

\* The fields of port, vq and hist in one record.
Now == port @@ vq @@ hist

\* The handler f(a) run on the state w; fast: the hardware follows a
\* register write before the driver reads the register again.
Handle(w, f, a, fast) ==
  Run(w @@ [fast |-> fast, stack |-> <<Frame(f, a)>>,
            ret |-> [err |-> "OK", slot |-> 0]])

\* History of a handler that ran a poll's completion with `false`: the poll
\* and whether the port was still in the state the poll was started in.
NoTimeout == [kind |-> "none", fresh |-> FALSE]

\* The port after the Hba constructor attached it to a port with a device
\* (S_present), the interface of its disk, and an empty history.
PortAfterAttach(ci0, started, receiving, idle) ==
  /\ port = [state |-> "present",
             busy |-> [s \in Slots |-> TRUE], cb |-> [s \in Slots |-> 0],
             ci |-> ci0, prdbc |-> [s \in Slots |-> 0], is |-> {},
             irq |-> FALSE, ie |-> FALSE, st |-> started, cr |-> started,
             fre |-> receiving, fr |-> receiving, clo |-> FALSE,
             idle |-> idle,
             det |-> TRUE, ccs |-> 0, sctl |-> FALSE, errands |-> <<>>]
  /\ vq = [avail |-> <<>>, pending |-> <<>>, used |-> <<>>, failed |-> FALSE,
           kinds |-> [r \in ReqIds |-> "none"], nsub |-> 0]
  /\ hist = [cbCount |-> [r \in ReqIds |-> 0],
             cbHow |-> [r \in ReqIds |-> "none"],
             cbErr |-> [r \in ReqIds |-> L4_EOK],
             statusChange |-> NoStatusChange,
             admitted |-> <<>>, owed |-> [s \in Slots |-> 0],
             hwBytes |-> [r \in ReqIds |-> 0],
             parked |-> {}, reuse |-> FALSE, crashed |-> FALSE, faulted |-> FALSE,
             refaulted |-> FALSE, stale |-> NoStale,
             pcsInFlight |-> FALSE, resetDone |-> FALSE, everFatal |-> FALSE,
             lastSend |-> NoSend, recovery |-> NoRecovery,
             unreadySend |-> NoUnreadySend,
             timedOut |-> NoTimeout, trail |-> <<>>, trailOn |-> FALSE,
             scanCb |-> [p \in HbaPorts |-> <<>>], scanState |-> "none",
             scanned |-> "no", recovering |-> 0, overlap |-> "none",
             sctlBusy |-> {}, clientReset |-> FALSE,
             opCalled |-> "none", opFrom |-> "none", opDone |-> 0,
             op |-> "init"]

\* The port of a device that was left idle: PxCI and PxSACT are zero.
PortInit == PortAfterAttach({}, FALSE, FALSE, TRUE)

\* The port as the firmware may have left it: command list and FIS receive
\* running or not, the device busy or not, any bits set in PxCI | PxSACT.
PortBoot ==
  \E ci0 \in SUBSET Slots, started, receiving, idle \in BOOLEAN :
    PortAfterAttach(ci0, started, receiving, idle)

PortIdle == PortInit

\* The state after a handler that left the world w.
Commit(w, op) ==
  \E v \in {w} :
    /\ port' = [f \in DOMAIN port |-> v[f]]
    /\ vq' = [f \in DOMAIN vq |-> v[f]]
    /\ hist' = [[f \in DOMAIN hist |-> v[f]] EXCEPT
                 !.op = op,
                 !.timedOut = IF op = "timeout" THEN @ ELSE NoTimeout]
    /\ UNCHANGED notPort

\* Hba::scan_ports for the port: initialize, initialize_memory, enable
ScanPorts(fast) ==
  /\ hist.scanned = "no"
  /\ Commit(Handle([Now EXCEPT !.scanned = "started"], "scan_ports", <<0>>,
                   fast), "scan")

\* The client puts a chain into the available ring, its limit-th at most.
AddChain(kind, limit) ==
  /\ hist.scanned = "port" /\ ~hist.crashed
  /\ vq.nsub < limit
  /\ LET r == vq.nsub + 1
     IN Commit([Now EXCEPT !.nsub = r, !.avail = Append(@, r),
                            !.kinds[r] = kind], "add")

\* The client resets the device, or its queue is found not ready:
\* Block_dev::reset disables the queue (no chain is taken from it any
\* more) and calls Virtio_ahci::reset_device, which for a whole disk is
\* Ata::Device::reset_device, `_port->reset([]{})`
ClientReset ==
  /\ hist.scanned = "port" /\ ~hist.crashed /\ ~hist.clientReset
  /\ Commit(Handle([Now EXCEPT !.avail = <<>>, !.clientReset = TRUE],
                   "reset_device", <<>>, FALSE), "client_reset")

\* The client's notification: Block_dev::kick
Notify ==
  /\ ~hist.crashed /\ vq.avail # <<>>
  /\ Commit(Handle(Now, "kick", <<>>, FALSE), "kick")

\* The device finishes the command in slot s after x bytes.
HwComplete(s, x) ==
  /\ ~hist.crashed /\ s \in port.ci /\ port.cr
  /\ Commit([Now EXCEPT
               !.ci = @ \ {s}, !.prdbc[s] = x,
               !.hwBytes = IF port.cb[s] = 0 THEN @
                           ELSE [@ EXCEPT ![port.cb[s]] = x],
               !.is = @ \cup {"data"}, !.irq = @ \/ port.ie], "hw_done")

\* The position of slot s's request in the order of admission.
IssuePos(s) == Min({k \in 1..Len(hist.admitted) : hist.admitted[k] = port.cb[s]})

\* The device finishes the commands in the order they were issued.
HwCompleteInOrder(x) ==
  \E s \in port.ci :
    /\ \A t \in port.ci : IssuePos(s) <= IssuePos(t)
    /\ HwComplete(s, x)

\* The device reports an error (fatal or not) for the command in slot s.
\* A run has at most one error or status-change event.
HwError(s, idle, second) ==
  /\ ~hist.crashed
  /\ IF second THEN hist.faulted /\ ~hist.refaulted ELSE ~hist.faulted
  /\ s \in port.ci /\ port.cr
  /\ Commit([Now EXCEPT !.is = @ \cup {"err"}, !.ccs = s,
                                 !.idle = idle, !.irq = @ \/ port.ie,
                                 !.faulted = TRUE,
                                 !.refaulted = second], "hw_error")

\* The link state changes (PxIS.PCS / PRCS).
HwStatusChange(det, second) ==
  /\ ~hist.crashed
  /\ IF second THEN hist.faulted /\ ~hist.refaulted ELSE ~hist.faulted
  /\ hist.scanned = "port"
  /\ Commit([Now EXCEPT
               !.is = @ \cup {"pcs"}, !.det = det, !.irq = @ \/ port.ie,
               !.faulted = TRUE, !.refaulted = second,
               !.pcsInFlight = port.state = "ready" /\ port.ci # {}],
            "hw_pcs")

\* A status bit of the hardware follows the register the driver wrote.
HwSettle(reg) ==
  /\ ~hist.crashed
  /\ CASE reg = "cr"   -> port.cr # port.st
       [] reg = "fr"   -> port.fr # port.fre
       [] reg = "clo"  -> port.clo
       [] reg = "idle" -> ~port.idle
       [] reg = "det"  -> ~port.det /\ ~port.sctl
  /\ Commit([Now EXCEPT
               !.cr = IF reg = "cr" THEN port.st ELSE @,
               !.fr = IF reg = "fr" THEN port.fre ELSE @,
               !.clo = IF reg = "clo" THEN FALSE ELSE @,
               !.idle = IF reg = "idle" THEN TRUE ELSE @,
               !.det = IF reg = "det" THEN TRUE ELSE @], "hw_settle")

\* Hba::handle_irq with the port's bit set: process_interrupts
Interrupt(fast) ==
  /\ ~hist.crashed /\ port.irq
  /\ Commit(Handle([Now EXCEPT !.irq = FALSE], "process_interrupts", <<>>,
                   fast), "irq")

\* The errands without errand i.
Without(q, i) == SubSeq(q, 1, i - 1) \o SubSeq(q, i + 1, Len(q))

\* An errand expires and its predicate holds (a scheduled errand has none).
ErrandRun(i, fast) ==
  /\ ~hist.crashed /\ i \in 1..Len(port.errands)
  /\ PollPred(port.errands[i].kind, port)
  /\ Commit(Handle([Now EXCEPT !.errands = Without(@, i)], "poll_done",
                   <<port.errands[i].kind, TRUE, port.errands[i].k,
                     port.errands[i].from>>, fast),
            "errand")

\* A poll errand meets its last retry with its predicate still false.
PollTimeout(i, fast) ==
  /\ ~hist.crashed /\ i \in 1..Len(port.errands)
  /\ ~PollPred(port.errands[i].kind, port)
  /\ Commit(Handle([Now EXCEPT
                      !.errands = Without(@, i),
                      !.timedOut = [kind |-> port.errands[i].kind,
                                    fresh |-> port.errands[i].from = port.state]],
                   "poll_done",
                   <<port.errands[i].kind, FALSE, port.errands[i].k,
                     port.errands[i].from>>, fast),
            "timeout")

PortNext ==
  \/ \E fast \in BOOLEAN : ScanPorts(fast)
  \/ \E kind \in {"IN", "FLUSH"} : AddChain(kind, MaxReqs)
  \/ Notify
  \/ \E s \in Slots, x \in Xfer : HwComplete(s, x)
  \/ \E s \in Slots, idle \in BOOLEAN : HwError(s, idle, FALSE)
  \/ \E det \in BOOLEAN : HwStatusChange(det, FALSE)
  \/ \E reg \in {"cr", "fr", "clo", "idle", "det"} : HwSettle(reg)
  \/ \E fast \in BOOLEAN : Interrupt(fast)
  \/ \E i \in 1..NumSlots + 2, fast \in BOOLEAN : ErrandRun(i, fast)
  \/ \E i \in 1..NumSlots + 2, fast \in BOOLEAN : PollTimeout(i, fast)

\* The pipeline with a device that behaves: reads only, commands finish in
\* the order of issue, no error, no status change, no poll runs out.
PipeProgress ==
  \/ \E fast \in BOOLEAN : ScanPorts(fast)
  \/ Notify
  \/ \E x \in Xfer : HwCompleteInOrder(x)
  \/ \E reg \in {"cr", "fr", "clo", "idle", "det"} : HwSettle(reg)
  \/ \E fast \in BOOLEAN : Interrupt(fast)
  \/ \E i \in 1..NumSlots + 2, fast \in BOOLEAN : ErrandRun(i, fast)

\* The port with a device that reports at most one error and answers every
\* poll in time; RecoverProgress are the steps that the server loop and the
\* hardware take on their own.
RecoverProgress ==
  \/ \E reg \in {"cr", "fr", "clo", "idle", "det"} : HwSettle(reg)
  \/ \E fast \in BOOLEAN : Interrupt(fast)
  \/ \E i \in 1..NumSlots + 2, fast \in BOOLEAN : ErrandRun(i, fast)

RecoverNext ==
  \/ \E fast \in BOOLEAN : ScanPorts(fast)
  \/ AddChain("IN", MaxReqs)
  \/ Notify
  \/ \E s \in Slots, x \in Xfer : HwComplete(s, x)
  \/ \E s \in Slots, idle \in BOOLEAN : HwError(s, idle, FALSE)
  \/ RecoverProgress

\* What the server does on its own after start: scan_ports, and the errand
\* loop that runs every poll until it holds or has used up its retries.
ScanProgress ==
  \/ \E fast \in BOOLEAN : ScanPorts(fast)
  \/ \E i \in 1..NumSlots + 2, fast \in BOOLEAN : ErrandRun(i, fast)
  \/ \E i \in 1..NumSlots + 2, fast \in BOOLEAN : PollTimeout(i, fast)

\* The scan of the ports, polls that may run out, and one read afterwards.
ScanNext ==
  \/ ScanProgress
  \/ AddChain("IN", 1)
  \/ Notify
  \/ \E s \in Slots, x \in Xfer : HwComplete(s, x)
  \/ \E reg \in {"cr", "fr", "clo", "idle", "det"} : HwSettle(reg)
  \/ \E fast \in BOOLEAN : Interrupt(fast)

\* The port with a single read and up to two errors or status changes.
StaleNext ==
  \/ \E fast \in BOOLEAN : ScanPorts(fast)
  \/ AddChain("IN", 1)
  \/ Notify
  \/ \E s \in Slots, x \in Xfer : HwComplete(s, x)
  \/ \E s \in Slots, idle, second \in BOOLEAN : HwError(s, idle, second)
  \/ \E det, second \in BOOLEAN : HwStatusChange(det, second)
  \/ \E reg \in {"cr", "fr", "clo", "idle", "det"} : HwSettle(reg)
  \/ \E fast \in BOOLEAN : Interrupt(fast)
  \/ \E i \in 1..NumSlots + 2, fast \in BOOLEAN : ErrandRun(i, fast)
  \/ \E i \in 1..NumSlots + 2, fast \in BOOLEAN : PollTimeout(i, fast)

\* The pipeline with a client that submits chains of every kind and a
\* device without errors.
KickNext ==
  \/ \E fast \in BOOLEAN : ScanPorts(fast)
  \/ \E kind \in Kinds : AddChain(kind, MaxReads)
  \/ Notify
  \/ \E s \in Slots, x \in Xfer : HwComplete(s, x)
  \/ \E reg \in {"cr", "fr", "clo", "idle", "det"} : HwSettle(reg)
  \/ \E fast \in BOOLEAN : Interrupt(fast)
  \/ \E i \in 1..NumSlots + 2, fast \in BOOLEAN : ErrandRun(i, fast)

PortOps == {"initialize", "enable", "disable", "abort"}

\* A caller invokes one operation of the port, in whatever state the
\* port is.
PortOp(op, fast) ==
  /\ ~hist.crashed /\ hist.opCalled = "none"
  /\ Commit(Handle([Now EXCEPT !.opCalled = op, !.opFrom = port.state],
                   "port_op", <<op>>, fast), "port_op")

\* The port from its discovery on, with one read at most and one call of
\* an operation at any time
OpsNext ==
  \/ ScanNext
  \/ \E op \in PortOps, fast \in BOOLEAN : PortOp(op, fast)

\* The client submits a read while its queue is enabled.
ClientAdd ==
  /\ ~hist.clientReset
  /\ AddChain("IN", MaxReqs)

\* The pipeline with a client that may reset the device and a link that
\* may change its state
ResetNext ==
  \/ \E fast \in BOOLEAN : ScanPorts(fast)
  \/ ClientAdd
  \/ Notify
  \/ ClientReset
  \/ \E s \in Slots, x \in Xfer : HwComplete(s, x)
  \/ \E det \in BOOLEAN : HwStatusChange(det, FALSE)
  \/ \E reg \in {"cr", "fr", "clo", "idle", "det"} : HwSettle(reg)
  \/ \E fast \in BOOLEAN : Interrupt(fast)
  \/ \E i \in 1..NumSlots + 2, fast \in BOOLEAN : ErrandRun(i, fast)

PipeNext ==
  \/ \E fast \in BOOLEAN : ScanPorts(fast)
  \/ AddChain("IN", MaxReads)
  \/ Notify
  \/ \E x \in Xfer : HwCompleteInOrder(x)
  \/ \E reg \in {"cr", "fr", "clo", "idle", "det"} : HwSettle(reg)
  \/ \E fast \in BOOLEAN : Interrupt(fast)
  \/ \E i \in 1..NumSlots + 2, fast \in BOOLEAN : ErrandRun(i, fast)

(***************************************************************************)
(*                   Errand::poll and Poll_errand (errand.h)               *)
(***************************************************************************)

\* Bounds: the retries and the interval a caller passes to poll, and how
\* late after its time the server loop runs a timeout.
MaxRetries == 3
MaxInterval == 2
MaxLate == 1

\* No call of poll.
TimerIdle == timer = [phase |-> "idle"]

\* The arguments of a call of poll, the clock at 0, nothing evaluated yet.
\* calls counts the calls of the callback, after the evaluations of the
\* poll function made when the callback had been called.
PollCall(r, i) ==
  [phase |-> "new", max_retries |-> r, interval |-> i,
   retries |-> 0, now |-> 0, due |-> 0,
   evals |-> 0, falses |-> 0, last |-> FALSE, done |-> "none",
   calls |-> 0, after |-> 0]

TimerInit ==
  \E r \in 1..MaxRetries, i \in 1..MaxInterval : timer = PollCall(r, i)

\* A call of poll with any number of retries, zero and negative included
TimerInitAny ==
  \E r \in (0 - 1)..MaxRetries, i \in 1..MaxInterval : timer = PollCall(r, i)

\* One evaluation of the poll function that returned b.
Evaluated(t, b) ==
  [t EXCEPT !.evals = @ + 1, !.falses = IF b THEN @ ELSE @ + 1, !.last = b,
            !.after = IF t.calls > 0 THEN @ + 1 ELSE @]

\* Poll_errand::reschedule: add_timeout(this, l4_kip_clock + _interval)
reschedule(t) == [t EXCEPT !.phase = "queued", !.due = t.now + t.interval]

\* The callback is called and the errand stays where it was.
done_requeued(t, b) ==
  [t EXCEPT !.done = IF b THEN "true" ELSE "false", !.calls = @ + 1]

\* The callback of the poll is called with b.
done(t, b) ==
  [t EXCEPT !.phase = "done", !.done = IF b THEN "true" ELSE "false",
            !.calls = @ + 1]

\* Errand::poll(retries, interval, poll_func, callback); b is what
\* poll_func returns.
Poll(b) ==
  /\ timer.phase = "new"
  /\ timer' = IF b THEN done(Evaluated(timer, b), TRUE)
              ELSE reschedule([Evaluated(timer, b) EXCEPT
                                 !.retries = timer.max_retries])
  /\ UNCHANGED notTimer

\* The clock moves on while the errand waits in the timeout queue.
Tick ==
  /\ timer.phase = "queued" /\ timer.now < timer.due + MaxLate
  /\ timer' = [timer EXCEPT !.now = @ + 1]
  /\ UNCHANGED notTimer

\* Poll_errand::expired(); b is what _poll returns.
Expired(b) ==
  /\ timer.phase = "queued" /\ timer.now >= timer.due
  /\ LET t == Evaluated(timer, b)
     IN timer' = IF b THEN done(t, TRUE)
                 ELSE IF t.retries - 1 <= 0
                 THEN done([t EXCEPT !.retries = @ - 1], FALSE)
                 ELSE reschedule([t EXCEPT !.retries = @ - 1])
  /\ UNCHANGED notTimer

TimerNext ==
  \/ \E b \in BOOLEAN : Poll(b)
  \/ Tick
  \/ \E b \in BOOLEAN : Expired(b)

(***************************************************************************)
(*          Partitioned_device and its in-flight cap (ahci_partition.h)    *)
(***************************************************************************)

\* Bound: the slots of the parent disk (the parent's max_in_flight()).
ParentSlots == 3

\* No partitioned view.
ViewIdle == pview = [max |-> 0]

\* The view after its constructor and one set_max_in_flight(mx), mx > 0:
\* _current_in_flight = 0, _max_in_flight = min(mx, parent's).  `flying`
\* counts the forwarded requests whose callback has not run, `others` the
\* parent's slots that other users of the disk hold.
ViewInit ==
  \E mx \in 1..ParentSlots :
    pview = [max |-> mx, cur |-> 0, flying |-> 0, others |-> 0,
             last |-> [op |-> "none"], set |-> TRUE]

\* What the parent's inout_data / flush returns for a forwarded request: an
\* error for a request it rejects, Busy when the disk has no free slot, else
\* it takes a slot and keeps the callback.
ParentReturn(v, valid) ==
  IF ~valid THEN "EINVAL"
  ELSE IF v.flying + v.others >= ParentSlots THEN "EBUSY" ELSE "OK"

\* `++_current_in_flight; return Block_device::Partitioned_device::
\* inout_data(...)` (or flush)
Forward(v, op, valid) ==
  LET ret == ParentReturn(v, valid)
  IN [v EXCEPT !.cur = @ + 1,
               !.flying = IF ret = "OK" THEN @ + 1 ELSE @,
               !.last = [op |-> op, flying |-> v.flying, ret |-> ret,
                         forwarded |-> TRUE]]

\* Partitioned_device::inout_data and flush (op names which)
ViewRequest(op, valid) ==
  /\ pview.max > 0
  /\ pview' = IF pview.cur >= pview.max
              THEN [pview EXCEPT !.last = [op |-> op, flying |-> pview.flying,
                                           ret |-> "EBUSY",
                                           forwarded |-> FALSE]]
              ELSE Forward(pview, op, valid)
  /\ UNCHANGED notView

\* The callback the view passed to the parent runs:
\* `--_current_in_flight; cb(error, sz);`
ViewCallback ==
  /\ pview.max > 0 /\ pview.flying > 0
  /\ pview' = [pview EXCEPT !.cur = @ - 1, !.flying = @ - 1,
                            !.last = [op |-> "callback"]]
  /\ UNCHANGED notView

\* Another user of the disk (the disk's own interface, another partition)
\* takes or gives back a slot of the parent.
OtherUser(d) ==
  /\ pview.max > 0
  /\ pview.others + d >= 0
  /\ pview.flying + pview.others + d <= ParentSlots
  /\ pview' = [pview EXCEPT !.others = @ + d, !.last = [op |-> "other"]]
  /\ UNCHANGED notView

\* The view after its constructor: _current_in_flight(0),
\* _max_in_flight(_parent->max_in_flight())
ViewConstructed ==
  pview = [max |-> ParentSlots, cur |-> 0, flying |-> 0, others |-> 0,
           last |-> [op |-> "none"], set |-> FALSE]

\* The values an administrator passes to set_max_in_flight
MxRange == (0 - ParentSlots - 1)..(ParentSlots + 1)

Max2(a, b) == IF a >= b THEN a ELSE b
Min2(a, b) == IF a <= b THEN a ELSE b

\* The cap is not clamped.
set_max_in_flight_unclamped(v, mx) ==
  [v EXCEPT !.max = IF mx > 0 THEN mx ELSE ParentSlots + mx,
            !.set = TRUE, !.last = [op |-> "set_max_in_flight", mx |-> mx]]

\* Partitioned_device::set_max_in_flight(mx)
set_max_in_flight(v, mx) ==
  [v EXCEPT !.max = IF mx > 0 THEN Min2(mx, ParentSlots)
                    ELSE Max2(1, ParentSlots + mx),
            !.set = TRUE, !.last = [op |-> "set_max_in_flight", mx |-> mx]]

SetMaxInFlight(mx) ==
  /\ pview.max > 0
  /\ pview' = set_max_in_flight(pview, mx)
  /\ UNCHANGED notView

ViewNext ==
  \/ \E op \in {"inout_data", "flush"}, valid \in BOOLEAN : ViewRequest(op, valid)
  \/ ViewCallback
  \/ \E d \in {0 - 1, 1} : OtherUser(d)

\* The view from its constructor on, with an administrator who changes
\* the cap
CapNext ==
  \/ ViewNext
  \/ \E mx \in MxRange : SetMaxInFlight(mx)

(***************************************************************************)
(*                          Specifications                                 *)
(***************************************************************************)

(***************************************************************************)
(*        Ahci_port::process_interrupts and the port's PxIS register       *)
(***************************************************************************)

\* Bits of PxIS by the masks of Regs::Port: task-file data, non-fatal
\* error, fatal error, and change of the link state.
Is_mask_data == {"dhrs", "pss"}
Is_mask_error == {"infs"}
Is_mask_fatal == {"tfes"}
Is_mask_status == {"pcs"}
IsBits == Is_mask_data \cup Is_mask_error \cup Is_mask_fatal \cup Is_mask_status

IsrIdle == isr = [pc |-> "none"]

\* No interrupt is pending and no handler runs.
IsrInit ==
  isr = [pc |-> "idle", is |-> {}, istate |-> {}, late |-> {},
         serr |-> FALSE, last |-> [op |-> "none"]]

\* The hardware sets a bit of PxIS that was clear; `late` are the bits set
\* since the running handler read the register.
IsrRaise(b) ==
  /\ isr.pc \in {"idle", "body"} /\ b \notin isr.is
  /\ isr' = [isr EXCEPT !.is = @ \cup {b},
                        !.late = IF isr.pc = "body" THEN @ \cup {b} ELSE @,
                        !.last = [op |-> "raise"]]
  /\ UNCHANGED notIsr

\* process_interrupts: `l4_uint32_t istate = _regs[Regs::Port::Is];`
IsrEnter ==
  /\ isr.pc = "idle" /\ isr.is # {}
  /\ isr' = [isr EXCEPT !.pc = "body", !.istate = isr.is, !.late = {},
                        !.last = [op |-> "read"]]
  /\ UNCHANGED notIsr

\* The value process_interrupts writes to PxIS before it returns.
process_interrupts_clear(istate) ==
  IF istate \cap Is_mask_status # {} THEN istate ELSE Is_mask_data

\* process_interrupts from the branch on istate to its return: the write to
\* PxIS clears the bits written as 1; handle_error leaves a callback that
\* clears SERR and the error bits later.
IsrLeave ==
  /\ isr.pc = "body"
  /\ LET mask == process_interrupts_clear(isr.istate)
     IN isr' = [isr EXCEPT
                  !.pc = "idle", !.is = @ \ mask,
                  !.serr = @ \/ ( /\ isr.istate \cap Is_mask_status = {}
                                  /\ isr.istate \cap (Is_mask_fatal \cup
                                                      Is_mask_error) # {} ),
                  !.last = [op |-> "clear", istate |-> isr.istate,
                            mask |-> mask, late |-> isr.late,
                            after |-> isr.is \ mask]]
  /\ UNCHANGED notIsr

\* The callback handle_error gave to initialize:
\* `_regs[Regs::Port::Is] = Is_mask_fatal | Is_mask_error`
IsrErrorsCleared ==
  /\ isr.pc = "idle" /\ isr.serr
  /\ isr' = [isr EXCEPT !.serr = FALSE,
                        !.is = @ \ (Is_mask_fatal \cup Is_mask_error),
                        !.last = [op |-> "errors_cleared"]]
  /\ UNCHANGED notIsr

IsrNext ==
  \/ \E b \in IsBits : IsrRaise(b)
  \/ IsrEnter
  \/ IsrLeave
  \/ IsrErrorsCleared

(***************************************************************************)
(*               Hba::handle_irq and the HBA's IS register                 *)
(***************************************************************************)

\* Registers and the local l4_uint32_t values are numbers; bit p of v.
Bit(v, p) == (v \div (2 ^ p)) % 2 = 1
BitsOf(v) == {p \in HbaPorts : Bit(v, p)}

RECURSIVE ValueOf(_)
ValueOf(S) ==
  IF S = {} THEN 0
  ELSE LET p == CHOOSE q \in S : TRUE IN 2 ^ p + ValueOf(S \ {p})

\* A write of v to a write-1-to-clear register that holds reg.
WriteOneToClear(reg, v) == ValueOf(BitsOf(reg) \ BitsOf(v))

HbaIdle == hba = [pc |-> "none"]

\* No interrupt is pending and handle_irq does not run.  `called` are the
\* ports whose process_interrupts ran, in the order of the calls, `late` the
\* bits the hardware set since handle_irq read the register.
HbaInit ==
  hba = [pc |-> "idle", reg |-> 0, is |-> 0, is_clear |-> 0, p |-> 0,
         called |-> <<>>, late |-> {}, last |-> [op |-> "none"]]

\* A port raises its bit in the HBA's IS register.
HbaRaise(p) ==
  /\ hba.pc \in {"idle", "loop"} /\ ~Bit(hba.reg, p)
  /\ hba' = [hba EXCEPT !.reg = @ + 2 ^ p,
                        !.late = IF hba.pc = "loop" THEN @ \cup {p} ELSE @,
                        !.last = [op |-> "raise"]]
  /\ UNCHANGED notHba

\* handle_irq: `l4_uint32_t is = _regs[Regs::Hba::Is]; is_clear = is;`
HbaEnter ==
  /\ hba.pc = "idle" /\ hba.reg # 0
  /\ hba' = [hba EXCEPT !.pc = "loop", !.is = hba.reg, !.is_clear = hba.reg,
                        !.p = 0, !.called = <<>>, !.late = {},
                        !.last = [op |-> "read"]]
  /\ UNCHANGED notHba

\* One round of `for (auto &p : _ports)`:
\* `if (is & 1) p.process_interrupts(); is >>= 1;`
handle_irq_port(h) ==
  [h EXCEPT !.called = IF h.is % 2 = 1 THEN Append(@, h.p) ELSE @,
            !.is = @ \div 2, !.p = @ + 1,
            !.last = [op |-> "port"]]

HbaPort ==
  /\ hba.pc = "loop" /\ hba.p < NumPorts
  /\ hba' = handle_irq_port(hba)
  /\ UNCHANGED notHba

\* The register is cleared with the value it holds now.
handle_irq_clear_current(h) ==
  [h EXCEPT !.pc = "idle", !.reg = WriteOneToClear(h.reg, h.reg),
            !.last = [op |-> "clear", read |-> h.is_clear, before |-> h.reg,
                      after |-> WriteOneToClear(h.reg, h.reg),
                      round |-> h.p, called |-> h.called, late |-> h.late]]

\* `_regs[Regs::Hba::Is] = is_clear;` after the loop
handle_irq_clear(h) ==
  [h EXCEPT !.pc = "idle", !.reg = WriteOneToClear(h.reg, h.is_clear),
            !.last = [op |-> "clear", read |-> h.is_clear, before |-> h.reg,
                      after |-> WriteOneToClear(h.reg, h.is_clear),
                      round |-> h.p, called |-> h.called, late |-> h.late]]

HbaClear ==
  /\ hba.pc = "loop" /\ hba.p = NumPorts
  /\ hba' = handle_irq_clear(hba)
  /\ UNCHANGED notHba

HbaNext ==
  \/ \E p \in HbaPorts : HbaRaise(p)
  \/ HbaEnter
  \/ HbaPort
  \/ HbaClear

ShareIdle == share = [pc |-> "none"]
DiscoIdle == disco = [pc |-> "none"]

OthersIdle == IsrIdle /\ HbaIdle /\ ShareIdle /\ DiscoIdle
InitConn == ConnInit /\ IoIdle /\ PortIdle /\ TimerIdle /\ ViewIdle /\ OthersIdle
InitAta ==
  /\ ioReq \in AtaRequests /\ ioRes = NoRes
  /\ ConnIdle /\ PortIdle /\ TimerIdle /\ ViewIdle /\ OthersIdle
InitPart ==
  /\ ioReq \in PartRequests /\ ioRes = NoRes
  /\ ConnIdle /\ PortIdle /\ TimerIdle /\ ViewIdle /\ OthersIdle
InitPort == PortInit /\ ConnIdle /\ IoIdle /\ TimerIdle /\ ViewIdle /\ OthersIdle
InitTimer == TimerInit /\ ConnIdle /\ IoIdle /\ PortIdle /\ ViewIdle /\ OthersIdle
InitView == ViewInit /\ ConnIdle /\ IoIdle /\ PortIdle /\ TimerIdle /\ OthersIdle
InitBoot == PortBoot /\ ConnIdle /\ IoIdle /\ TimerIdle /\ ViewIdle /\ OthersIdle
InitIsr ==
  /\ IsrInit /\ HbaIdle /\ ShareIdle /\ DiscoIdle
  /\ ConnIdle /\ IoIdle /\ PortIdle /\ TimerIdle /\ ViewIdle
InitHba ==
  /\ HbaInit /\ IsrIdle /\ ShareIdle /\ DiscoIdle
  /\ ConnIdle /\ IoIdle /\ PortIdle /\ TimerIdle /\ ViewIdle

SpecConn == InitConn /\ [][ConnNext]_vars
SpecAta == InitAta /\ [][AtaInout]_vars
SpecPart == InitPart /\ [][PartInout]_vars
SpecPort == InitPort /\ [][PortNext]_vars
SpecKick == InitPort /\ [][KickNext]_vars
SpecStale == InitPort /\ [][StaleNext]_vars
SpecBoot == InitBoot /\ [][ScanNext]_vars
SpecScan == InitBoot /\ [][ScanNext]_vars /\ WF_vars(ScanProgress)
SpecRecover == InitPort /\ [][RecoverNext]_vars /\ WF_vars(RecoverProgress)
SpecTimer == InitTimer /\ [][TimerNext]_vars
SpecView == InitView /\ [][ViewNext]_vars
SpecIsr == InitIsr /\ [][IsrNext]_vars
SpecHba == InitHba /\ [][HbaNext]_vars
\* The dispatcher runs every handler that is due, the hardware finishes
\* what it was given, the client notifies the device of the chains it added.
SpecPipe == InitPort /\ [][PipeNext]_vars /\ WF_vars(PipeProgress)

(***************************************************************************)
(*                 Claims about the connection tree                        *)
(***************************************************************************)

Published(r, pts) == \E k \in 1..Len(pts) : pts[k] = r
ChildBound(r, ifc) == \E i \in 1..nsubs[r] : ifc[<<r, i>>]
BoundIn(r, ifc) == {n \in Nodes : n[1] = r /\ n[2] <= nsubs[r] /\ ifc[n]}

\* C1 (as stated): in every Connection subtree at most one of the root and
\* its children is bound to a client interface at any time.
C1_AtMostOneBound == \A r \in Roots : Cardinality(BoundIn(r, iface)) <= 1

\* C1 (amended): in every Connection subtree the root is never bound
\* together with one of its children; the children (partitions) may be bound
\* side by side.
C1_RootExcludesChildren ==
  \A r \in Roots : ~(iface[RootOf(r)] /\ ChildBound(r, iface))

\* C1 witness: a child is bound and a request for the root was just refused.
C1_Witness ==
  \E r \in Roots :
    /\ ChildBound(r, iface)
    /\ lastOp.op = "create" /\ lastOp.name = RootOf(r) /\ lastOp.ret = "EBUSY"

\* The three cases of C5, on the state before the call.
C5_Case(name) ==
  /\ name \in Nodes
  /\ Published(name[1], connpts)
  /\ name[2] <= nsubs[name[1]]
  /\ \/ name[2] = 0 /\ ChildBound(name[1], iface)
     \/ name[2] > 0 /\ iface[RootOf(name[1])]
     \/ iface[name]

\* C5: a request for the root while a child is bound, for a child while the
\* root is bound, or for a node that is itself bound returns Busy and leaves
\* every binding as it was.
C5_BusyAndUnchanged ==
  [][(lastOp'.op = "create" /\ C5_Case(lastOp'.name))
       => (lastOp'.ret = "EBUSY" /\ iface' = iface)]_vars

\* C5 witness: a child was requested while its root is bound, and refused.
C5_Witness ==
  /\ lastOp.op = "create"
  /\ lastOp.name \in Nodes /\ lastOp.name[2] > 0
  /\ lastOp.name[2] <= nsubs[lastOp.name[1]]
  /\ iface[RootOf(lastOp.name[1])]
  /\ lastOp.ret = "EBUSY"

C6_NoSubtreeContains(name) ==
  \A k \in 1..Len(connpts) : ~contains_device(RootOf(connpts[k]), name, nsubs)

\* C6: when no published subtree contains the requested name, create returns
\* Retry if more devices were discovered than connections are published, and
\* NotFound otherwise, and binds nothing.
C6_RetryOrNotFound ==
  [][(lastOp'.op = "create" /\ C6_NoSubtreeContains(lastOp'.name))
       => /\ lastOp'.ret = IF available > Len(connpts)
                            THEN "EAGAIN" ELSE "ENODEV"
          /\ iface' = iface]_vars

\* C6 witness: a device is still scanning and a name that no published
\* subtree holds was answered with Retry.
C6_Witness ==
  /\ lastOp.op = "create"
  /\ C6_NoSubtreeContains(lastOp.name)
  /\ available > Len(connpts)
  /\ lastOp.ret = "EAGAIN"

(***************************************************************************)
(*                      Claims about inout_data                            *)
(***************************************************************************)

\* The opcode table of the specification.
C7_Table(write, dma, longaddr) ==
  IF dma /\ ~longaddr THEN (IF write THEN 202 ELSE 200)
  ELSE IF dma /\ longaddr THEN (IF write THEN 53 ELSE 37)
  ELSE IF ~dma /\ ~longaddr THEN (IF write THEN 48 ELSE 32)
  ELSE (IF write THEN 52 ELSE 36)

\* C7: for every combination of dma, longaddr and the write flag the opcode
\* that inout_data puts into the taskfile is the entry of the opcode table.
C7_OpcodeMatchesTable ==
  (ioReq.dev = "disk" /\ ioRes # NoRes /\ ioRes.sent)
    => ioRes.command = C7_Table(ioReq.write, ioReq.dma, ioReq.longaddr)

C8_Bytes == SumTo(ioReq.data, Len(ioReq.data))
C8_Aligned == \A k \in 1..Len(ioReq.data) : ioReq.data[k] % ioReq.sector_size = 0
C8_Count == C8_Bytes \div ioReq.sector_size
C8_OutOfLimits ==
  IF ioReq.longaddr
  THEN C8_Count > 65536 \/ LbaGe(ioReq.sector, Two48)
  ELSE C8_Count > 256 \/ LbaGe(ioReq.sector, Two28)

\* C8: inout_data returns InvalidArgument, without calling send_command, for
\* every request outside the addressing limits (28-bit: more than 256 sectors
\* or an LBA not below 2^28; 48-bit: more than 65536 sectors or an LBA not
\* below 2^48), and passes every request of at least one sector-aligned block
\* inside the limits, whose sector the bus can address, to send_command.
C8_LimitsEnforced ==
  (ioReq.dev = "disk" /\ ioRes # NoRes)
    => /\ (C8_Aligned /\ C8_OutOfLimits)
            => (ioRes.ret = "EINVAL" /\ ~ioRes.sent)
       /\ (/\ C8_Aligned /\ ~C8_OutOfLimits /\ C8_Count >= 1
           /\ (ioReq.host64 /\ ~ioReq.s64a => ~LbaGe(ioReq.sector, Two32)))
            => ioRes.sent

C9_Sectors == (SumTo(ioReq.data, Len(ioReq.data)) + 511) \div 512
C9_Size == ioReq.last - ioReq.first + 1

\* C9: the LBA a partition view hands to its parent is the request's LBA plus
\* the partition's first sector, and a request that ends behind the
\* partition (request_lba + ceil(bytes/512) > size) is rejected with
\* InvalidArgument and not handed on.
C9_OffsetAndBounds ==
  (ioReq.dev = "partition" /\ ioRes # NoRes)
    => /\ ioRes.sent => ioRes.lba = ioReq.sector + ioReq.first
       /\ (ioReq.sector + C9_Sectors > C9_Size)
            => (ioRes.ret = "EINVAL" /\ ~ioRes.sent)

\* C9 witness: a request that ends exactly at the end of the partition, not
\* at its first sector, was handed to the parent.
C9_Witness ==
  /\ ioReq.dev = "partition" /\ ioRes # NoRes /\ ioRes.sent
  /\ ioReq.sector > 0
  /\ ioReq.sector + C9_Sectors = C9_Size

(***************************************************************************)
(*                 Claims about the port and the pipeline                  *)
(***************************************************************************)

\* The step is a run of process_interrupts.
C2_IsInterrupt == port.irq /\ ~port'.irq
\* How often the callback of request r fires in the step.
C2_Fired(r) == hist'.cbCount[r] - hist.cbCount[r]
\* Request r sits in a reserved slot whose PxCI bit has cleared.
C2_Cleared(r) == \E s \in Slots : port.busy[s] /\ port.cb[s] = r /\ s \notin port.ci
C2_OncePerClearedBit ==
  /\ \A r \in ReqIds : C2_Fired(r) = IF C2_Cleared(r) THEN 1 ELSE 0
  /\ ~hist'.reuse

C3_InSlots ==
  {r \in ReqIds : (\E k \in 1..Len(hist.admitted) : hist.admitted[k] = r)
                  /\ hist.cbCount[r] = 0}
\* Request r is in the used ring with status OK.
C3_DoneOk(r) ==
  \E k \in 1..Len(vq.used) :
    vq.used[k].id = r /\ vq.used[k].status = L4VIRTIO_BLOCK_S_OK
C3_NeverMoreThanSlots ==
  /\ Cardinality(C3_InSlots) <= NumSlots
  /\ \A k \in 1..Len(vq.used) : vq.used[k].status = L4VIRTIO_BLOCK_S_OK
  /\ \A j, k \in 1..Len(hist.admitted) :
       j < k => hist.admitted[j] < hist.admitted[k]

C4_ReadyAfterReset ==
  (hist.pcsInFlight /\ hist.resetDone /\ port.errands = <<>> /\ port.det)
    => port.state = "ready"

\* The final status of request r: OK when the hardware completed it,
\* Unsupported when it is neither a read nor a write, IoError otherwise.
C10_FinalStatus(r) ==
  CASE hist.cbHow[r] = "finish" -> L4VIRTIO_BLOCK_S_OK
    [] vq.kinds[r] \notin {"IN", "OUT"} -> L4VIRTIO_BLOCK_S_UNSUPP
    [] OTHER -> L4VIRTIO_BLOCK_S_IOERR

\* C10: every finalized chain carries the final status of its request as
\* its status byte (OK, IoError or Unsupported), and the length of its
\* used-ring entry is the number of bytes the hardware transferred for it.
C10_StatusAndLength ==
  \A k \in 1..Len(vq.used) :
    vq.used[k].status # NoStatus =>
      /\ vq.used[k].status = C10_FinalStatus(vq.used[k].id)
      /\ vq.used[k].len = hist.hwBytes[vq.used[k].id]

(***************************************************************************)
(*                       Claims about the errands                          *)
(***************************************************************************)

\* C11: poll calls done(true) directly after the first evaluation of the
\* predicate that returns true, and done(false) after exactly max_retries
\* evaluations that returned false.
C11_PollContract ==
  /\ timer.done = "true" =>
       timer.last /\ timer.evals = timer.falses + 1
  /\ timer.done = "false" => timer.falses = timer.max_retries

(***************************************************************************)
(*                    Claims about the port's states                       *)
(***************************************************************************)

\* C13: Fatal is terminal: a port whose state has been Fatal is Fatal.
C13_FatalIsTerminal == hist.everFatal => port.state = "fatal"

\* The requests that a step takes from the available ring or the pending
\* queue and hands to send_command.
C14_Taken ==
  {r \in ReqIds :
     /\ vq.kinds[r] \in {"IN", "OUT"}
     /\ \/ \E k \in 1..Len(vq.avail) : vq.avail[k] = r
        \/ \E k \in 1..Len(vq.pending) : vq.pending[k] = r
     /\ \A k \in 1..Len(vq'.avail) : vq'.avail[k] # r
     /\ \A k \in 1..Len(vq'.pending) : vq'.pending[k] # r}

\* C14: once the port has been Fatal, send_command returns no-device: it
\* reserves no slot, writes nothing to PxCI and calls no callback, so the
\* request is finalized with IoError by its caller.
C14_OutOfService ==
  [][hist.everFatal =>
       /\ hist'.admitted = hist.admitted
       /\ port'.ci \subseteq port.ci
       /\ \A r \in C14_Taken :
            /\ hist'.cbCount[r] = hist.cbCount[r]
            /\ \E k \in 1..Len(vq'.used) :
                 /\ vq'.used[k].id = r
                 /\ vq'.used[k].status = L4VIRTIO_BLOCK_S_IOERR]_vars

C16_InFlightCap ==
  /\ pview.flying <= pview.max
  /\ pview.last.op \in {"inout_data", "flush"} =>
       IF pview.last.flying = pview.max
       THEN pview.last.ret = "EBUSY" /\ ~pview.last.forwarded
       ELSE pview.last.forwarded

(***************************************************************************)
(*                     Claims about kick and the rings                     *)
(***************************************************************************)

\* Request r is in the sequence q.
C17_In(r, q) == \E k \in 1..Len(q) : q[k] = r
\* Chain r, whose only descriptor is shorter than the header, was taken
\* from the available ring.
C17_ShortTaken(r) ==
  r <= vq.nsub /\ vq.kinds[r] = "short" /\ ~C17_In(r, vq.avail)
C17_FailedAndConsumed ==
  \A r \in ReqIds :
    C17_ShortTaken(r) =>
      /\ vq.failed
      /\ \E k \in 1..Len(vq.used) : vq.used[k].id = r
      /\ ~C17_In(r, hist.admitted) /\ ~C17_In(r, vq.pending)
      /\ hist.cbCount[r] = 0

\* C17: when kick meets a chain whose only descriptor is shorter than the
\* header, the device config becomes failed, the chain is consumed in the
\* used ring and is never handed to process_request (no slot is reserved);
\* while the config is failed no step but the client's takes a chain from
\* the available ring.
C17_ShortDescriptor ==
  /\ []C17_FailedAndConsumed
  /\ [][vq.failed => (vq'.avail = vq.avail \/ hist'.op = "add")]_vars

\* A short chain was met with another chain behind it in the available
\* ring, and kick has been called again since.
C17_Witness ==
  /\ \E r \in ReqIds : C17_ShortTaken(r)
  /\ vq.avail # <<>> /\ hist.op = "kick"

\* The sequence of request ids q is in the order of submission.
C18_Ascending(q) == \A j, k \in 1..Len(q) : j < k => q[j] < q[k]
\* The used-ring entries of the requests that never waited in _pending.
C18_Direct == SelectSeq(vq.used, LAMBDA e : e.id \notin hist.parked)
C18_DirectIds == [k \in 1..Len(C18_Direct) |-> C18_Direct[k].id]
\* While requests wait in _pending, every chain taken from the available
\* ring after the head of _pending waits in _pending too.
C18_QueueStopped ==
  vq.pending # <<>> =>
    \A r \in 1..vq.nsub :
      (r > Head(vq.pending) /\ ~C17_In(r, vq.avail)) => C17_In(r, vq.pending)

\* C18 as stated: requests are handed to the device in the order of the
\* available ring, and the completions of the requests that did not pass
\* through the pending queue are in the order of submission.
C18_CompletionOrder ==
  /\ C18_Ascending(hist.admitted)
  /\ C18_Ascending(C18_DirectIds)

\* C18 amended: requests are handed to the device in the order of the
\* available ring: slots are reserved in that order, the pending queue is
\* in that order, and while it is non-empty no later chain is taken from
\* the available ring.  (The order of completions is not preserved.)
C18_AdmissionOrder ==
  /\ C18_Ascending(hist.admitted)
  /\ C18_Ascending(vq.pending)
  /\ C18_QueueStopped

\* A request waited in _pending with a later chain behind it in the
\* available ring, and was reissued from there.
C18_Witness ==
  \E r \in hist.parked :
    /\ C17_In(r, hist.admitted)
    /\ vq.nsub > r

\* C19: the PxCI mask that the recovery from an error interrupt writes when
\* the port is enabled again has only bits of slots that are reserved at the
\* time of the write, so it has no bit of a slot that handle_error aborted,
\* and after the write every bit set in PxCI belongs to a reserved slot.
C19_SurvivingMask ==
  hist.recovery.written =>
    /\ hist.recovery.mask \subseteq hist.recovery.busy
    /\ hist.recovery.mask \cap hist.recovery.aborted = {}
    /\ hist.recovery.ci \subseteq hist.recovery.busy

C21_BudgetExhausted ==
  /\ hist.op = "timeout"
  /\ hist.timedOut.kind \in {"enable_clo", "dma_enable", "disable"}
  /\ hist.timedOut.fresh

C21_TimeoutIsFatal == C21_BudgetExhausted => port.state = "fatal"

\* C22: when the reset that follows a status-change interrupt writes
\* SCTL = 1, every slot that was reserved when the interrupt was handled is
\* free and the callback it held has been called exactly once, with -L4_EIO;
\* none of these callbacks is called a second time later.
C22_AbortBeforeReset ==
  /\ hist.statusChange.sctl => hist.statusChange.settled
  /\ \A r \in hist.statusChange.reqs :
       /\ hist.cbCount[r] <= 1
       /\ hist.cbCount[r] = 1 => hist.cbErr[r] = 0 - L4_EIO

\* The reset has written SCTL = 1 after an interrupt that found a request in
\* a slot.
C22_Witness ==
  /\ hist.statusChange.sctl /\ hist.statusChange.reqs # {}
  /\ hist.statusChange.slots # {}

\* C23: after an error interrupt on a Ready, started port the callback of
\* the failing request is called once with -L4_EIO, and when every poll is
\* answered in time the port goes through Error, ErrorInit, Disabled and
\* Enabling, in this order, and is eventually Ready again.
C23_Path == <<"error", "error_init", "disabled", "enabling", "ready">>

C23_OnPath ==
  /\ Len(hist.trail) <= Len(C23_Path)
  /\ hist.trail = SubSeq(C23_Path, 1, Len(hist.trail))

C23_FailingRequestTold ==
  (hist.trail # <<>> /\ hist.recovery.req # 0) =>
    /\ hist.cbCount[hist.recovery.req] = 1
    /\ hist.cbErr[hist.recovery.req] = 0 - L4_EIO

C23_ErrorRecovery ==
  /\ [](C23_OnPath /\ C23_FailingRequestTold)
  /\ (hist.trail # <<>>) ~> (hist.trail = C23_Path /\ port.state = "ready")

\* The port is Ready again after the error of a request.
C23_Witness ==
  /\ hist.trail = C23_Path /\ port.state = "ready"
  /\ hist.recovery.req # 0 /\ hist.cbErr[hist.recovery.req] = 0 - L4_EIO

\* C24: a send_command that reserves a slot on a port that is not Ready
\* leaves PxCI as it was, has called the request's callback exactly once,
\* with -L4_EIO, has the slot free again when it returns, and returns the
\* number of the slot.
C24_AbortedSend ==
  hist.unreadySend.req # 0 =>
    /\ hist.unreadySend.ci = hist.unreadySend.ci0
    /\ hist.unreadySend.calls = 1
    /\ hist.unreadySend.error = 0 - L4_EIO
    /\ hist.unreadySend.free
    /\ hist.unreadySend.slot \in Slots

\* A read was sent to a port that was not Ready and came back.
C24_Witness ==
  /\ hist.unreadySend.req # 0 /\ hist.unreadySend.calls = 1
  /\ hist.unreadySend.free /\ hist.op \in {"kick", "errand", "irq"}

\* C25: the write by which process_interrupts clears PxIS has exactly the
\* bits the handler read at its start, so a bit the hardware set while the
\* handler ran is still set when it returns.
C25_ClearsWhatItRead ==
  isr.last.op = "clear" => isr.last.late \subseteq isr.last.after

\* C26: handle_irq calls process_interrupts once for each port whose bit is
\* set in the value of HBA IS it read on entry and for no other port; it
\* writes that value to HBA IS after the round of the last port, and the
\* write clears the bits of that value only: a bit raised since the read is
\* still set.
C26_CalledPorts ==
  {hba.last.called[k] : k \in 1..Len(hba.last.called)}

C26_HandleIrq ==
  /\ hba.pc = "loop" => BitsOf(hba.is_clear) \subseteq BitsOf(hba.reg)
  /\ hba.last.op = "clear" =>
       /\ C26_CalledPorts = BitsOf(hba.last.read)
       /\ Len(hba.last.called) = Cardinality(BitsOf(hba.last.read))
       /\ hba.last.round = NumPorts
       /\ BitsOf(hba.last.after) = BitsOf(hba.last.before) \ BitsOf(hba.last.read)
       /\ hba.last.late \subseteq BitsOf(hba.last.after)

\* handle_irq returned after a port had raised its bit while it ran.
C26_Witness ==
  /\ hba.last.op = "clear" /\ hba.last.late # {}
  /\ hba.last.called # <<>>

\* C27: from initialize_memory on, every reserved slot of the port holds a
\* completion callback - also a slot that initialize_memory left reserved
\* because its bit was set in PxCI | PxSACT.
C27_ReservedHasCallback ==
  port.state \notin {"present", "present_init", "attached"} =>
    \A s \in Slots : port.busy[s] => port.cb[s] # 0

\* C28: scan_ports calls its callback once for every port of the HBA and
\* never twice: with the port when initialize, initialize_memory and enable
\* left it Ready, with null for a port without device and for a port on
\* which a poll of one of the stages ran out; and the calls do come.
C28_OncePerPort ==
  /\ \A p \in HbaPorts : Len(hist.scanCb[p]) <= 1
  /\ \A p \in HbaPorts \ {0} : hist.scanCb[p] \in {<<>>, <<"null">>}
  /\ hist.scanCb[0] = <<"port">> => hist.scanState = "ready"
  /\ hist.scanCb[0] = <<"null">> =>
       hist.scanState \in {"fatal", "disabled"} /\ hist.everFatal

C28_AllCalled == \A p \in HbaPorts : Len(hist.scanCb[p]) = 1

Header_size == 16

\* The segment limit the device was given with set_size_max
MaxBlockSize == 2

\* _vq_max, the size of the queue
QueueSize == 3

\* Data_block::len is an l4_uint32_t; the walk is modelled with words of
\* sixteen bits, which wrap the same way
LenModulus == 2 ^ 16

LenDec(len) == (len + LenModulus - 1) % LenModulus

\* The lengths a client can give a descriptor of the scatter list
BlockLens == 0..(MaxBlockSize + 2)

HeaderLens == {Header_size - 1, Header_size, Header_size + 1}

RECURSIVE SeqsUpTo(_, _)
SeqsUpTo(S, n) ==
  IF n = 0 THEN {<<>>}
  ELSE LET shorter == SeqsUpTo(S, n - 1)
       IN  shorter \cup {Append(q, x) : q \in {q \in shorter : Len(q) = n - 1}, x \in S}

\* The chains a client can put in the queue: a first descriptor and up to
\* QueueSize further ones
WalkChains ==
  {[dev |-> "chain", hdr |-> h, blocks |-> b] :
     h \in HeaderLens, b \in SeqsUpTo(BlockLens, QueueSize)}

Bad_descriptor == [ret |-> "walk", outcome |-> "Bad_descriptor", failed |-> TRUE,
                   consumed |-> TRUE, status |-> "none", data |-> <<>>,
                   statusDesc |-> 0, statusOff |-> 0]

\* The state of one walk: the descriptor in data, its length as the walk
\* has changed it, the number of descriptors seen, the status and the
\* scatter list of the request
WalkStart(c) == [desc |-> 0, len |-> c.hdr, processed |-> 1,
                 status |-> "L4VIRTIO_BLOCK_S_OK", data |-> <<>>, thrown |-> FALSE]

\* data.len > _max_block_size
exceeds(len) == len > MaxBlockSize

\* One turn of while (rp.next(this, &data)) for descriptor i of the chain
walk_next(c, w, i) ==
  LET len0   == c.blocks[i]
      status == IF exceeds(len0) THEN "L4VIRTIO_BLOCK_S_UNSUPP" ELSE w.status
      len    == IF i = Len(c.blocks) THEN LenDec(len0) ELSE len0
      seen   == w.processed + 1
  IN  IF seen > QueueSize
        THEN [w EXCEPT !.desc = i, !.len = len, !.processed = seen,
                       !.status = status, !.thrown = TRUE]
        ELSE [w EXCEPT !.desc = i, !.len = len, !.processed = seen,
                       !.status = status,
                       !.data = IF status = "L4VIRTIO_BLOCK_S_OK" /\ len > 0
                                  THEN Append(@, len) ELSE @]

RECURSIVE walk_from(_, _, _)
walk_from(c, w, i) ==
  IF w.thrown \/ i > Len(c.blocks) THEN w
  ELSE walk_from(c, walk_next(c, w, i), i + 1)

\* The body of the try block of kick for one chain, and its catch clause:
\* what became of the chain, and where device_status points (the
\* descriptor and the offset from its address)
kick_walk(c) ==
  IF c.hdr < Header_size THEN Bad_descriptor
  ELSE IF c.blocks = <<>> /\ c.hdr = Header_size THEN Bad_descriptor
  ELSE LET w == walk_from(c, WalkStart(c), 1)
       IN  IF w.thrown THEN Bad_descriptor
           ELSE [ret |-> "walk",
                 outcome |-> IF w.status # "L4VIRTIO_BLOCK_S_OK"
                               THEN "finalize_request" ELSE "process_request",
                 failed |-> FALSE,
                 consumed |-> w.status # "L4VIRTIO_BLOCK_S_OK",
                 status |-> w.status, data |-> w.data,
                 statusDesc |-> w.desc, statusOff |-> w.len]

\* kick takes one chain from the queue
KickWalk ==
  /\ ioReq.dev = "chain" /\ ioRes = NoRes
  /\ ioRes' = kick_walk(ioReq)
  /\ UNCHANGED <<ioReq, notIo>>

InitWalk ==
  /\ ioReq \in WalkChains /\ ioRes = NoRes
  /\ ConnIdle /\ PortIdle /\ TimerIdle /\ ViewIdle /\ OthersIdle

SpecWalk == InitWalk /\ [][KickWalk]_vars

\* The chain has a scatter block with more data than max_block_size, the
\* status byte of the last descriptor not counted
HasOversizedBlock(c) ==
  \E i \in 1..Len(c.blocks) : c.blocks[i] > MaxBlockSize + (IF i = Len(c.blocks) THEN 1 ELSE 0)

\* C29: a chain with a scatter block larger than max_block_size (and with
\* a header and no more descriptors than the queue has, so that the walk
\* reaches its end) is finalized with status Unsupported, the status is
\* written to the last byte of the last descriptor, the chain is consumed
\* and it is never passed to process_request.
C29_OversizedChain ==
  (/\ ioRes.ret = "walk"
   /\ ioReq.hdr >= Header_size
   /\ Len(ioReq.blocks) < QueueSize
   /\ HasOversizedBlock(ioReq))
  => /\ ioRes.outcome = "finalize_request"
     /\ ioRes.status = "L4VIRTIO_BLOCK_S_UNSUPP"
     /\ ioRes.consumed /\ ~ioRes.failed
     /\ ioRes.statusDesc = Len(ioReq.blocks)
     /\ ioRes.statusOff = ioReq.blocks[Len(ioReq.blocks)] - 1

\* The requests of a type other than IN and OUT that kick has taken from
\* the available ring
C30_OtherTaken ==
  {r \in 1..vq.nsub : vq.kinds[r] = "FLUSH"
                       /\ \A k \in 1..Len(vq.avail) : vq.avail[k] # r}

C30_UsedAs(r, status) ==
  Cardinality({k \in 1..Len(vq.used) : vq.used[k].id = r}) = 1
  /\ \E k \in 1..Len(vq.used) :
       vq.used[k] = [id |-> r, status |-> status, len |-> 0]

\* C30: a request whose type is neither IN nor OUT is finalized with
\* status Unsupported by the process_request call that took it: once it
\* has left the available ring it is in the used ring, once, with
\* Unsupported; it was never given a slot and never entered the pending
\* queue.
C30_OtherTypeUnsupported ==
  \A r \in C30_OtherTaken :
    /\ C30_UsedAs(r, L4VIRTIO_BLOCK_S_UNSUPP)
    /\ \A k \in 1..Len(hist.admitted) : hist.admitted[k] # r
    /\ \A s \in Slots : port.cb[s] # r
    /\ r \notin hist.parked
    /\ \A k \in 1..Len(vq.pending) : vq.pending[k] # r

\* A FLUSH completed while the port was ready and every slot was taken by
\* a read
C30_Witness ==
  /\ port.state = "ready"
  /\ \A s \in Slots : port.busy[s] /\ port.cb[s] # 0
  /\ \E r \in C30_OtherTaken :
       /\ C30_UsedAs(r, L4VIRTIO_BLOCK_S_UNSUPP)
       /\ \E s \in Slots : port.cb[s] < r

\* ---------------------------------------------------------------------
\* Partition_reader: the size of the GPT entry array (partition.cc)
\* ---------------------------------------------------------------------

\* sizeof(Gpt_entry)
Gpt_entry_size == 128

\* The largest partition_array_size of a header
MaxEntries == 12

\* device_info().sector_size
SectorSizes == {512, 4096}

\* entry_size of a header
EntrySizes == {Gpt_entry_size, 2 * Gpt_entry_size}

GptHeaders ==
  {[dev |-> "gpt", partition_array_size |-> n, entry_size |-> es, secsz |-> sz] :
     n \in 0..MaxEntries, es \in EntrySizes, sz \in SectorSizes}

\* a & b for naturals
RECURSIVE BitAnd(_, _)
BitAnd(a, b) ==
  IF a = 0 \/ b = 0 THEN 0
  ELSE 2 * BitAnd(a \div 2, b \div 2) + (IF a % 2 = 1 /\ b % 2 = 1 THEN 1 ELSE 0)

\* Partition_reader::get_gpt from the header to the size of _parray
get_gpt(h) ==
  LET arraysz == h.partition_array_size * h.entry_size
      numsec  == arraysz \div h.secsz
  IN  [ret |-> "get_gpt",
       numsec |-> IF BitAnd(arraysz, h.secsz) # 0 THEN numsec + 1 ELSE numsec]

\* The loop of Partition_reader::read_gpt: the end of the last entry it
\* reads at _parray.get<Gpt_entry>(off)
read_gpt(h, res) ==
  [ret |-> "read_gpt", numsec |-> res.numsec,
   readEnd |-> IF h.partition_array_size = 0 THEN 0
               ELSE (h.partition_array_size - 1) * h.entry_size + Gpt_entry_size]

GetGpt ==
  /\ ioReq.dev = "gpt" /\ ioRes = NoRes
  /\ ioRes' = get_gpt(ioReq)
  /\ UNCHANGED <<ioReq, notIo>>

ReadGpt ==
  /\ ioReq.dev = "gpt" /\ ioRes.ret = "get_gpt"
  /\ ioRes' = read_gpt(ioReq, ioRes)
  /\ UNCHANGED <<ioReq, notIo>>

GptNext == GetGpt \/ ReadGpt

InitGpt ==
  /\ ioReq \in GptHeaders /\ ioRes = NoRes
  /\ ConnIdle /\ PortIdle /\ TimerIdle /\ ViewIdle /\ OthersIdle

SpecGpt == InitGpt /\ [][GptNext]_vars

CeilDiv(a, b) == (a + b - 1) \div b

\* C31: the number of sectors allocated and read for the GPT entry array
\* is partition_array_size * entry_size divided by the sector size,
\* rounded up, and every entry the decode loop reads lies inside them.
C31_ArraySectors ==
  ioRes.ret \in {"get_gpt", "read_gpt"}
  => /\ ioRes.numsec
          = CeilDiv(ioReq.partition_array_size * ioReq.entry_size, ioReq.secsz)
     /\ ioRes.ret = "read_gpt" => ioRes.readEnd <= ioRes.numsec * ioReq.secsz

InitCap == ViewConstructed /\ ConnIdle /\ IoIdle /\ PortIdle /\ TimerIdle /\ OthersIdle

SpecCap == InitCap /\ [][CapNext]_vars

\* The cap of a view nobody has set is the parent's slot count.
C32_Default == (pview.max > 0 /\ ~pview.set) => pview.max = ParentSlots

\* C32 as stated: set_max_in_flight(mx) sets the cap to mx itself when
\* mx > 0 and to max(1, parent_count + mx) when mx <= 0; before any call
\* the cap is the parent's slot count.
C32_CapIsMx ==
  /\ C32_Default
  /\ pview.last.op = "set_max_in_flight" =>
       pview.max = IF pview.last.mx > 0 THEN pview.last.mx
                   ELSE Max2(1, ParentSlots + pview.last.mx)

\* C32 amended: set_max_in_flight(mx) sets the cap to the smaller of mx
\* and the parent's slot count when mx > 0 and to max(1, parent_count + mx)
\* when mx <= 0, so the cap is always between 1 and the parent's slot
\* count; before any call it is the parent's slot count.
C32_CapClamped ==
  /\ C32_Default
  /\ pview.max > 0 => pview.max \in 1..ParentSlots
  /\ pview.last.op = "set_max_in_flight" =>
       /\ pview.max >= 1
       /\ pview.max = IF pview.last.mx > 0 THEN Min2(pview.last.mx, ParentSlots)
                      ELSE Max2(1, ParentSlots + pview.last.mx)

\* set_max_in_flight was called with more than the parent has, on a view
\* with a request outstanding
C32_Witness ==
  /\ pview.last.op = "set_max_in_flight" /\ pview.last.mx > ParentSlots
  /\ pview.max = ParentSlots /\ pview.flying > 0

\* C33: the in-flight counter of a partitioned view always equals the
\* number of requests it forwarded to the parent whose completion callback
\* has not yet run; a request the parent rejects at once does not stay
\* counted.
C33_CounterIsOutstanding == pview.max > 0 => pview.cur = pview.flying

\* ---------------------------------------------------------------------
\* The interfaces of one disk's partitions on the disk's slot pool
\* (devices.h Partitioned_device, virtio_ahci.h, virtio_ahci.cc)
\* ---------------------------------------------------------------------

\* The command slots of the port
ShareSlots == 2

\* The interfaces (one Virtio_ahci per bound partition)
NumIfcs == 2

\* The chains one client submits
MaxChains == 2

Ifcs == 1..NumIfcs
PoolSlots == 0..(ShareSlots - 1)

\* No slot reserved, the rings and the pending queues empty.  slots[s] is
\* the interface whose request holds slot s (0: free); the other fields
\* count, per interface, the chains submitted, those in the available
\* ring, those in _pending, those in the used ring and the reissues.
ShareInit ==
  share = [pc |-> "run",
           slots |-> [s \in PoolSlots |-> 0],
           sub |-> [i \in Ifcs |-> 0], avail |-> [i \in Ifcs |-> 0],
           pending |-> [i \in Ifcs |-> 0], used |-> [i \in Ifcs |-> 0]]

shared_free(w) == {s \in PoolSlots : w.slots[s] = 0}

\* Ahci_port::send_command on the Ready port, reached through
\* Partitioned_device::inout_data: a slot or -L4_EBUSY
shared_send_command(w, i) ==
  IF shared_free(w) = {} THEN w
  ELSE [w EXCEPT !.slots[CHOOSE s \in shared_free(w) :
                           \A t \in shared_free(w) : s <= t] = i]

\* Block_dev::kick of interface i with Virtio_ahci::process_request
RECURSIVE shared_kick(_, _)
shared_kick(w, i) ==
  IF w.pending[i] > 0 \/ w.avail[i] = 0 THEN w
  ELSE LET w1 == [w EXCEPT !.avail[i] = @ - 1]
       IN  IF shared_free(w1) = {}
             THEN [w1 EXCEPT !.pending[i] = @ + 1]
             ELSE shared_kick(shared_send_command(w1, i), i)

\* Virtio_ahci::check_pending of interface i
RECURSIVE shared_check_pending(_, _)
shared_check_pending(w, i) ==
  IF w.pending[i] = 0 THEN shared_kick(w, i)
  ELSE IF shared_free(w) = {} THEN w
  ELSE shared_check_pending(
         [shared_send_command(w, i) EXCEPT !.pending[i] = @ - 1], i)

\* Virtio_ahci::task_finished of interface i: finalize_request, then
\* check_pending (which returns at once when _pending is empty)
shared_task_finished(w, i) ==
  LET w1 == [w EXCEPT !.used[i] = @ + 1]
  IN  IF w1.pending[i] = 0 THEN w1 ELSE shared_check_pending(w1, i)

\* The client of interface i puts a chain into its available ring.
ShareAdd(i) ==
  /\ share.pc = "run" /\ share.sub[i] < MaxChains
  /\ share' = [share EXCEPT !.sub[i] = @ + 1, !.avail[i] = @ + 1]
  /\ UNCHANGED notShare

\* The client's notification
ShareKick(i) ==
  /\ share.pc = "run" /\ share.avail[i] > 0
  /\ share' = shared_kick(share, i)
  /\ UNCHANGED notShare

\* The command in slot s completes: the slot is released and the callback
\* of the request, task_finished of its interface, runs.
ShareComplete(s) ==
  /\ share.pc = "run" /\ share.slots[s] # 0
  /\ share' = shared_task_finished([share EXCEPT !.slots[s] = 0], share.slots[s])
  /\ UNCHANGED notShare

ShareProgress ==
  \/ \E i \in Ifcs : ShareKick(i)
  \/ \E s \in PoolSlots : ShareComplete(s)

ShareNext ==
  \/ \E i \in Ifcs : ShareAdd(i)
  \/ ShareProgress

InitShare ==
  /\ ShareInit /\ IsrIdle /\ HbaIdle /\ DiscoIdle
  /\ ConnIdle /\ IoIdle /\ PortIdle /\ TimerIdle /\ ViewIdle

\* The device completes every command it was given and every client
\* notifies its interface.
SpecShare == InitShare /\ [][ShareNext]_vars /\ WF_vars(ShareProgress)

\* Interface i has a request in its pending queue / a slot is free.
C34_Parked(i) == share.pc = "run" /\ share.pending[i] > 0
C34_SlotFree == \E s \in PoolSlots : share.slots[s] = 0

\* C34: a request parked in an interface's pending queue is eventually
\* reissued once a command slot becomes free, also when the slots were
\* held by requests of other interfaces and the waiting interface has no
\* request of its own in flight.
C34_ParkedIsReissued ==
  \A i \in Ifcs : (C34_Parked(i) /\ C34_SlotFree) ~> ~C34_Parked(i)

\* C35: at most one error-recovery sequence (the initialize -> enable
\* chain started by handle_error) is in progress per port at any time; an
\* interrupt that arrives while one is in progress (the port in Error,
\* ErrorInit, Disabled or Enabling) starts no second sequence and does not
\* reset the state of the running one.
C35_OneRecovery == hist.recovering <= 1 /\ hist.overlap = "none"

SpecReset == InitPort /\ [][ResetNext]_vars

\* C37: whenever a port reset begins (SCTL written to 1), by the
\* status-change interrupt or by a client's reset_device on a whole disk,
\* no slot is still reserved.
C37_NoSlotAtReset == hist.sctlBusy = {}

\* Chain r was taken from the available ring by kick.
C36_Taken(r) == r <= vq.nsub /\ ~C17_In(r, vq.avail)

\* The entries of the used ring for chain r, and those that carry a status
C36_Returned(r) == {k \in 1..Len(vq.used) : vq.used[k].id = r}
C36_StatusWritten(r) == {k \in C36_Returned(r) : vq.used[k].status # NoStatus}

\* Chain r waits in the pending queue or holds a slot.
C36_Held(r) ==
  C17_In(r, vq.pending) \/ \E s \in Slots : port.busy[s] /\ port.cb[s] = r

\* C36: every descriptor chain that kick takes from the available ring is
\* returned to the used ring exactly once and has its status byte written
\* at most once, whichever path it takes: while it waits in the pending
\* queue or holds a slot it is not in the used ring, and from then on it
\* is there once.
C36_ExactlyOnce ==
  \A r \in ReqIds :
    C36_Taken(r) =>
      /\ Cardinality(C36_Returned(r)) = (IF C36_Held(r) THEN 0 ELSE 1)
      /\ Cardinality(C36_StatusWritten(r)) <= 1
      /\ hist.cbCount[r] <= 1

InitPoll == TimerInitAny /\ ConnIdle /\ IoIdle /\ PortIdle /\ ViewIdle /\ OthersIdle

\* The server loop runs every timeout of its queue.
SpecPoll == InitPoll /\ [][TimerNext]_vars /\ WF_vars(TimerNext)

C40_Once == timer.phase # "idle" => timer.calls <= 1 /\ timer.after = 0

\* C40: for every call of Errand::poll, done is invoked exactly once and
\* the predicate is never evaluated again after done has been invoked;
\* done is always eventually invoked, also for max_retries <= 0 and for a
\* predicate that never returns true.
C40_DoneExactlyOnce ==
  /\ []C40_Once
  /\ (timer.phase # "idle") ~> (timer.phase = "done" /\ timer.calls = 1)

\* A poll with no retries whose predicate never returned true has called
\* done
C40_Witness ==
  /\ timer.phase = "done" /\ timer.max_retries <= 0
  /\ timer.done = "false" /\ timer.evals = timer.falses /\ timer.calls = 1

\* The server loop runs every errand: a poll completes or times out.
SpecOps == InitBoot /\ [][OpsNext]_vars /\ WF_vars(ScanProgress)

C39_Called(op) == hist.opCalled = op
C39_AtMostOnce == hist.opDone <= 1

\* C39: each of the port operations initialize, enable, disable and abort
\* eventually invokes the callback it was given exactly once, from every
\* port state in which it is called, out-of-order states and poll
\* timeouts included.
C39_CallbackOnce ==
  /\ []C39_AtMostOnce
  /\ \A op \in PortOps : C39_Called(op) ~> (hist.opDone = 1)

(***************************************************************************)
(*  Discovery of one device: Connection::start_disk_scan (ahci.cc),        *)
(*  Ata::Device::start_device_scan (devices.cc), Partition_reader          *)
(*  (partition.cc)                                                         *)
(***************************************************************************)

\* The retries start_device_scan and read_sectors pass to Errand::poll
Poll_retries == 10

\* Bound: the bytes of pinned memory the allocator can still hand out
MemLimit == 1048576

\* A size no allocation can serve
HugeSize == 4 * MemLimit

\* What Device_info::sector_size holds before Device_info::set has run: the
\* structure has no initialiser and Ata::Device's constructor sets _port
\* only, so the value is whatever the memory held.
IndeterminateSizes == {0, 512, HugeSize}

\* What send_command returns: a slot with the command on its way, a slot
\* whose command was aborted before the call returned (the port was not
\* ready, the callback has run with -L4_EIO), -L4_ENODEV, -L4_EBUSY
ScanSends == {"slot", "aborted", "ENODEV", "EBUSY"}

\* The results of the sends of one handler, in the order of the calls
SendOracles == {<<a, b>> : a \in ScanSends, b \in ScanSends}

\* What the second sector of the disk holds: the signature and the size
\* fields of the GPT header
DiskHeaders ==
  {[sig |-> s, partition_array_size |-> n, entry_size |-> Gpt_entry_size] :
     s \in BOOLEAN, n \in {0, MaxEntries}}

\* The device scan_ports has found on a port, not created yet.  divtrap
\* tells whether the processor of the build traps on an integer division
\* by zero.
DiscoInit ==
  \E g \in IndeterminateSizes, t \in BOOLEAN :
    disco = [pc |-> "boot", stage |-> "none", retries |-> 0, secsz |-> g,
             divtrap |-> t, available |-> 0, published |-> 0]

\* Phys_region(sz, ...): L4Re::chksys throws when the allocation fails
alloc_throws(sz) == sz > MemLimit

\* An exception or a trap ends the handler; nothing of the scan is pending
Thrown(d) == [d EXCEPT !.pc = "thrown"]

\* The callback scan_ports hands to start_disk_scan:
\* _connpts.push_back(conn); connect_static_clients(conn.get())
disk_scan_done(d) == [d EXCEPT !.published = @ + 1]

\* The callback start_disk_scan hands to Partition_reader::read:
\* add_partitions(reader->partitions()); callback()
reader_callback(d) == disk_scan_done(d)

\* Poll_errand::reschedule from Errand::poll: a new errand with all retries
disco_queue(d, stage) ==
  [d EXCEPT !.pc = "queued", !.stage = stage, !.retries = Poll_retries]

\* the command is in a slot, its callback will run on completion
disco_sent(d, stage) == [d EXCEPT !.pc = "flight", !.stage = stage]

\* Partition_reader::read_gpt
reader_read_gpt(d, error) == reader_callback(d)

\* The poll function of Partition_reader::read_sectors: os[1] is what
\* send_command returns to inout_data, aborted the state after the bound
\* member function has run with -L4_EIO from inside send_command.
\* inout_data divides by the sector size before it sends.
read_sectors_poll(d, stage, os, aborted) ==
  IF d.secsz = 0 /\ d.divtrap THEN [d |-> Thrown(d), ret |-> TRUE]
  ELSE CASE os[1] = "slot" -> [d |-> disco_sent(d, stage), ret |-> TRUE]
         [] os[1] = "aborted" -> [d |-> aborted, ret |-> TRUE]
         [] os[1] = "ENODEV" -> [d |-> reader_callback(d), ret |-> TRUE]
         [] os[1] = "EBUSY" -> [d |-> d, ret |-> FALSE]

\* Partition_reader::read_sectors: Errand::poll evaluates the poll function
\* at once and queues a Poll_errand when it returned false; the callback of
\* the poll does nothing for true.
read_sectors(d, stage, os, aborted) ==
  LET r == read_sectors_poll(d, stage, os, aborted)
  IN  IF r.ret THEN r.d ELSE disco_queue(r.d, stage)

\* The bytes Partition_reader::get_gpt allocates for _parray
parray_size(d, hdr) ==
  IF d.secsz = 0 THEN 0
  ELSE get_gpt([dev |-> "gpt", partition_array_size |-> hdr.partition_array_size,
                entry_size |-> hdr.entry_size, secsz |-> d.secsz]).numsec
         * d.secsz

\* Partition_reader::get_gpt
reader_get_gpt(d, error, os, hdr) ==
  IF error < 0 THEN reader_callback(d)
  ELSE IF ~hdr.sig THEN reader_callback(d)
  ELSE IF d.secsz = 0 /\ d.divtrap THEN Thrown(d)
  ELSE IF alloc_throws(parray_size(d, hdr)) THEN Thrown(d)
  ELSE read_sectors(d, "array", os, reader_read_gpt(d, 0 - L4_EIO))

\* The member function read_sectors was given for the stage
reader_next(stage, d, error, os, hdr) ==
  IF stage = "header" THEN reader_get_gpt(d, error, os, hdr)
  ELSE reader_read_gpt(d, error)

\* Partition_reader::read
reader_read(d, os, hdr) ==
  read_sectors(d, "header", os,
               reader_get_gpt(d, 0 - L4_EIO, Tail(os), hdr))

\* The callback Connection::start_disk_scan hands to start_device_scan:
\* the constructor of Partition_reader allocates 2 * sector_size bytes
device_scan_done(d, os, hdr) ==
  IF alloc_throws(2 * d.secsz) THEN Thrown(d) ELSE reader_read(d, os, hdr)

\* cb of Ata::Device::start_device_scan; sz is the sector size of the
\* identification page
identify_cb(d, error, sz, os, hdr) ==
  device_scan_done(IF error = L4_EOK THEN [d EXCEPT !.secsz = sz] ELSE d,
                   os, hdr)

\* The poll function of Ata::Device::start_device_scan
device_scan_poll(d, os, hdr) ==
  CASE os[1] = "slot" -> [d |-> disco_sent(d, "identify"), ret |-> TRUE]
    [] os[1] = "aborted" ->
         [d |-> identify_cb(d, 0 - L4_EIO, 0, Tail(os), hdr), ret |-> TRUE]
    [] os[1] = "ENODEV" ->
         [d |-> device_scan_done(d, Tail(os), hdr), ret |-> TRUE]
    [] os[1] = "EBUSY" -> [d |-> d, ret |-> FALSE]

\* Ata::Device::start_device_scan
start_device_scan(d, os, hdr) ==
  LET r == device_scan_poll(d, os, hdr)
  IN  IF r.ret THEN r.d ELSE disco_queue(r.d, "identify")

\* The callback of the polls: if (!ret) callback()
disco_poll_done(d, ret, os, hdr) ==
  IF ret THEN d
  ELSE IF d.stage = "identify" THEN device_scan_done(d, os, hdr)
  ELSE reader_callback(d)

\* Poll_errand::expired of the poll of the stage
disco_expired(d0, os, hdr) ==
  LET d == [d0 EXCEPT !.pc = "end"]
      r == IF d.stage = "identify" THEN device_scan_poll(d, os, hdr)
           ELSE read_sectors_poll(d, d.stage, os,
                  reader_next(d.stage, d, 0 - L4_EIO, Tail(os), hdr))
  IN  IF r.d.pc = "thrown" THEN r.d
      ELSE IF r.ret THEN disco_poll_done(r.d, TRUE, Tail(os), hdr)
      ELSE IF d.retries - 1 <= 0
      THEN disco_poll_done([r.d EXCEPT !.retries = @ - 1], FALSE,
                           Tail(os), hdr)
      ELSE [r.d EXCEPT !.pc = "queued", !.retries = @ - 1]

\* The callback of scan_ports in start_device_discovery for a port with a
\* device: create_device, ++_available_devices, conn->start_disk_scan
Discover(os, hdr) ==
  /\ disco.pc = "boot"
  /\ disco' = start_device_scan(
                [disco EXCEPT !.pc = "end", !.available = @ + 1], os, hdr)
  /\ UNCHANGED notDisco

\* The server loop runs the Poll_errand of the scan
DiscoExpired(os, hdr) ==
  /\ disco.pc = "queued"
  /\ disco' = disco_expired(disco, os, hdr)
  /\ UNCHANGED notDisco

\* The command of the scan completes with error; the slot's callback runs
DiscoComplete(error, sz, os, hdr) ==
  /\ disco.pc = "flight"
  /\ LET d == [disco EXCEPT !.pc = "end"]
     IN disco' = IF disco.stage = "identify"
                 THEN identify_cb(d, error, sz, os, hdr)
                 ELSE reader_next(disco.stage, d, error, os, hdr)
  /\ UNCHANGED notDisco

DiscoNext ==
  \/ \E os \in SendOracles, hdr \in DiskHeaders : Discover(os, hdr)
  \/ \E os \in SendOracles, hdr \in DiskHeaders : DiscoExpired(os, hdr)
  \/ \E error \in {L4_EOK, 0 - L4_EIO}, sz \in SectorSizes,
        os \in SendOracles, hdr \in DiskHeaders :
       DiscoComplete(error, sz, os, hdr)

InitDisco ==
  /\ DiscoInit /\ IsrIdle /\ HbaIdle /\ ShareIdle
  /\ ConnIdle /\ IoIdle /\ PortIdle /\ TimerIdle /\ ViewIdle

\* The server loop runs every queued errand and the device completes every
\* command it was given.
SpecDisco == InitDisco /\ [][DiscoNext]_vars /\ WF_vars(DiscoNext)

\* Ahci_virtio_driver::op_create returns -L4_EAGAIN
C38_Retry == disco.available > disco.published

\* C38: every device counted as available at discovery is eventually
\* published as a connection exactly once, whether the IDENTIFY and GPT
\* reads succeed, fail, stay busy through all poll retries or are aborted:
\* published connections never exceed available devices and create
\* eventually stops returning Retry.
C38_PublishedOnce ==
  /\ [](disco.pc # "none" => disco.published <= disco.available)
  /\ (disco.pc = "boot") ~> [](disco.available = 1 /\ ~C38_Retry)

====
